---- MODULE Spec2Model ----
(***************************************************************************)
(* Model of the resumable crawl engine of wuwt_scraper:                    *)
(*   - the comment tree builder and the deduplication of scrape_comments   *)
(*     (scrapers/comments.py),                                             *)
(*   - the rate limiter and the request methods of the HTTP client         *)
(*     (utils/rate_limiter.py, utils/http_client.py),                      *)
(*   - archive discovery (scrapers/article_list.py) over the progress      *)
(*     database (storage/database.py),                                     *)
(*   - the scrape phase of the orchestrator (main.py, scrapers/article.py).*)
(* Each part has its own specification; a specification leaves the         *)
(* variables of the other parts unchanged.                                 *)
(***************************************************************************)
EXTENDS Integers, Sequences, FiniteSets, TLC

VARIABLES
    \* ---- comment merge (CommentScraper.scrape_comments) ----
    comments,        \* the concatenated batches, in input order
    merged,          \* outcome of tree building + deduplication
    \* ---- rate limiter / HTTP client ----
    now,             \* time.time(), in whole seconds
    delay,           \* RateLimiter.delay
    last_request,    \* RateLimiter._last_request
    busy,            \* a request is in flight
    reqlog,          \* history: the last two requests of this client
    \* ---- progress database (ScraperDatabase) ----
    articles,        \* table articles: url -> row
    archive_months,  \* table archive_months: year_month -> row
    comment_rows,    \* table comments: comment_id -> row
    op,              \* history: the last call of a store method
    \* ---- archive discovery (ArchiveScraper) ----
    dpc,             \* position of discover_all_articles
    dmonth,          \* the month of the for loop
    dpage,           \* page of scrape_archive_month
    all_articles,    \* all_articles of scrape_archive_month
    found,           \* the list scrape_archive_month returned
    total_new,       \* total_new of discover_all_articles
    server,          \* what the site answered for each listing page
    monthStubs,      \* history: the filtered stubs of each completed month
    snap,            \* history: table articles when the run started
    runs,            \* history: discovery runs that ran to their end
    offered,         \* history: this run handed stubs to add_article_stubs
    \* ---- scrape phase (WUWTScraper._scrape_articles, ArticleScraper) ----
    spc,             \* position of the scrape loop
    mode,            \* who drives the loop: run or retry_failed_articles
    pending,         \* the rest of the list the for loop walks
    html_content,    \* article.content_html of the article just scraped
    articles_scraped, \* articles_scraped of _scrape_articles
    limit,           \* limit of the run
    permFail,        \* the URLs whose every fetch fails with a non-404 error
    fetchLog,        \* history: the fetch of an article URL in the last step
    owed,            \* history: retriable failed articles this run has not fetched
    lastOutcome,     \* history: how the last step of the loop ended for its article
    \* ---- the run and its session (WUWTScraper.run, scrape_sessions) ----
    session,         \* the scrape_sessions row of the session opened last
    comments_scraped, \* comments_scraped of _scrape_articles
    run_scraped,     \* articles_scraped, comments_scraped of run
    exit_path,       \* history: the path on which run reached its finally clause
    \* ---- one call of HTTPClient.get_with_retry ----
    rpc,             \* position of get_with_retry
    max_retries,     \* config.max_retries
    base_delay,      \* base_delay = config.request_delay
    max_attempts,    \* max_attempts after the default is applied
    attempt,         \* attempt of the for loop
    tries,           \* history: how each self.get of this call ended
    sleeps,          \* history: the time.sleep of this call, one per retry
    waits,           \* history: passes through RateLimiter.wait in this call
    \* ---- comment acquisition (CommentScraper.scrape_comments) ----
    cpc,             \* position of scrape_comments
    total_pages,     \* total_pages of scrape_comments
    page_num,        \* page_num of _scrape_paginated_comments
    paginated_comments, \* all_comments of _scrape_paginated_comments
    load_more,       \* the article page carries a load-more button
    tried,           \* history: what each comment page URL answered
    handed,          \* history: the list given to _build_comment_tree
    saved,           \* history: the lists given to add_comments by this call
    \* ---- incremental loading (CommentScraper._load_ajax_comments) ----
    lpc,             \* position of _load_ajax_comments
    max_load,        \* config.max_comment_load_attempts
    initial_count,   \* initial_count of the call
    attempts,        \* attempts of the while loop
    offset,          \* offset of the while loop
    sent,            \* history: the offset of each POST of this call
    got,             \* history: the answer to each POST of this call
    \* ---- image download (CommentScraper.download_comment_images) ----
    image_refs,      \* the ImageRef objects of the comments, in loop order
    image_idx,       \* position of the loop (0: no call yet)
    image_rows,      \* table images: original_url -> row
    image_requests,  \* history: download requests issued per URL
    image_done,      \* history: URLs of the references flagged downloaded
    \* ---- threads sharing one RateLimiter ----
    tpc,             \* position of each thread in RateLimiter.wait
    lock,            \* holder of RateLimiter._lock (0: free)
    wake,            \* per thread: the time its time.sleep is due to end
    passlog          \* history: the last two returns of wait

treeVars == <<comments, merged>>
acqVars == <<cpc, total_pages, page_num, paginated_comments, load_more, tried,
             handed, saved>>
loadVars == <<lpc, max_load, initial_count, attempts, offset, sent, got>>
imgVars == <<image_refs, image_idx, image_rows, image_requests, image_done>>
thrVars == <<tpc, lock, wake, passlog>>
retryVars == <<rpc, max_retries, base_delay, max_attempts, attempt, tries,
               sleeps, waits>>
rateVars == <<now, delay, last_request, busy, reqlog>>
dbVars == <<articles, archive_months>>
storeVars == <<comment_rows, op>>
discVars == <<dpc, dmonth, dpage, all_articles, found, total_new, server,
              monthStubs, snap, runs, offered>>
scrapeVars == <<spc, mode, pending, html_content, articles_scraped, limit,
                permFail, fetchLog, owed, lastOutcome, session,
                comments_scraped, run_scraped, exit_path>>
vars == <<comments, merged, now, delay, last_request, busy, reqlog,
          articles, archive_months, comment_rows, op, dpc, dmonth, dpage, all_articles, found,
          total_new, server, monthStubs, snap, runs, offered,
          spc, mode, pending, html_content, articles_scraped, limit,
          permFail, fetchLog, owed, lastOutcome, session,
          comments_scraped, run_scraped, exit_path,
          rpc, max_retries, base_delay, max_attempts, attempt, tries, sleeps,
          waits, cpc, total_pages, page_num, paginated_comments, load_more,
          tried, handed, saved, lpc, max_load, initial_count, attempts, offset, sent,
          got, image_refs, image_idx, image_rows, image_requests, image_done,
          tpc, lock, wake, passlog>>
\* What the actions of one part leave alone: the variables of the others.
notTree == <<thrVars, imgVars, loadVars, acqVars, rateVars, dbVars, storeVars, discVars, scrapeVars, retryVars>>
notRate == <<thrVars, imgVars, loadVars, acqVars, treeVars, dbVars, storeVars, discVars, scrapeVars, retryVars>>
notDisc == <<thrVars, imgVars, loadVars, acqVars, treeVars, rateVars, storeVars, scrapeVars, retryVars>>
notScrape == <<thrVars, imgVars, loadVars, acqVars, treeVars, rateVars, storeVars, discVars, archive_months,
               retryVars>>
notStore == <<thrVars, imgVars, loadVars, acqVars, treeVars, rateVars, discVars, scrapeVars, retryVars>>
notRetry == <<thrVars, imgVars, loadVars, acqVars, treeVars, now, last_request, busy, reqlog, dbVars, storeVars,
              discVars, scrapeVars>>

notLoad == <<thrVars, imgVars, acqVars, treeVars, rateVars, dbVars, storeVars, discVars,
             scrapeVars, retryVars>>
notImg == <<thrVars, loadVars, acqVars, treeVars, rateVars, dbVars, storeVars, discVars,
            scrapeVars, retryVars>>
notThr == <<imgVars, loadVars, acqVars, treeVars, dbVars, storeVars, discVars,
            scrapeVars, retryVars, busy, reqlog>>
notAcq == <<thrVars, imgVars, loadVars, treeVars, rateVars, dbVars, storeVars, discVars, scrapeVars,
            retryVars>>

Max(a, b) == IF a >= b THEN a ELSE b
Min(a, b) == IF a <= b THEN a ELSE b

(***************************************************************************)
(*                       COMMENT TREE BUILDER                              *)
(***************************************************************************)

\* Length of the concatenated comment list.
MaxComments == 2
\* Comment ids are the all-digit ids "1" .. "NIds".
NIds == 2
\* parent_id = None (top-level comment).
NoParent == 0
\* A missing timestamp (None); the sort key replaces it by the integer 0.
NoTimestamp == 0
\* Timestamps the extractor may deliver (datetimes, ordered as the integers).
TimestampValues == {NoTimestamp, 1, 2}
\* Depth values the extractor may deliver (data-depth / nesting inference).
ExtractorDepths == {0, 1}

CommentIds == 1..NIds

\* The id "wpd-comm-<n>_<p>" of a wpDiscuz comment whose short numeric id
\* is n (the all-digit ids are the numbers up to NIds).
WpdComm(n) == NIds + n
WpdIds == {WpdComm(n) : n \in CommentIds}

\* The key under which by_numeric_id files a comment: the digits matched by
\* wpd-comm-(\d+)_ , or the id itself when it is all digits.
NumericKey(id) == IF id \in WpdIds THEN id - NIds ELSE id

\* A Comment: pos is the position in the concatenated input and stands for
\* the identity of the record (author, text, votes, images).
CommentInputs ==
    [id : CommentIds, parent_id : {NoParent} \cup CommentIds,
     depth : ExtractorDepths, timestamp : TimestampValues]

\* by_id = {c.id: c for c in comments}: a later comment with the same id
\* replaces the earlier one. 0 = no entry.
ById(cs, k) ==
    LET hits == {i \in 1..Len(cs) : cs[i].id = k}
    IN IF hits = {} THEN 0 ELSE CHOOSE i \in hits : \A j \in hits : j <= i

\* by_numeric_id: the last comment filed under the key wins.
ByNumericId(cs, k) ==
    LET hits == {i \in 1..Len(cs) : NumericKey(cs[i].id) = k}
    IN IF hits = {} THEN 0 ELSE CHOOSE i \in hits : \A j \in hits : j <= i

\* A plausible slip: the short numeric id is tried before the full id.
NumericFirst(cs, pid) ==
    IF ByNumericId(cs, pid) # 0 THEN ByNumericId(cs, pid) ELSE ById(cs, pid)

\* parent = by_id.get(parent_id) or by_numeric_id.get(parent_id)
LookupParent(cs, pid) ==
    IF ById(cs, pid) # 0 THEN ById(cs, pid) ELSE ByNumericId(cs, pid)

\* The loop "for comment in comments" of _build_comment_tree, from index i:
\* the comments are mutated in place, so a parent's depth is read as it is
\* at that moment of the loop.
RECURSIVE ResolveParents(_, _)
ResolveParents(cs, i) ==
    IF i > Len(cs) THEN cs
    ELSE IF cs[i].parent_id = NoParent THEN ResolveParents(cs, i + 1)
    ELSE LET p == LookupParent(cs, cs[i].parent_id) IN
         IF p # 0
         THEN ResolveParents([cs EXCEPT ![i].depth = cs[p].depth + 1], i + 1)
         ELSE ResolveParents(
                [cs EXCEPT ![i].parent_id = NoParent, ![i].depth = 0], i + 1)

\* key=lambda c: (c.timestamp or 0, c.depth), compared as Python tuples;
\* withDepth = FALSE is the key without its second component.
KeyLeq(a, b, withDepth) ==
    \/ a.timestamp < b.timestamp
    \/ a.timestamp = b.timestamp /\ (withDepth => a.depth <= b.depth)

\* Comparing the key 0 of a missing timestamp with a datetime raises
\* TypeError: a list that mixes the two cannot be sorted.
SortRaises(cs) ==
    \E i, j \in 1..Len(cs) :
        cs[i].timestamp = NoTimestamp /\ cs[j].timestamp # NoTimestamp

\* Stable insertion of c behind every element whose key is <= c's key.
RECURSIVE InsertSorted(_, _, _)
InsertSorted(sorted, c, withDepth) ==
    IF sorted = <<>> THEN <<c>>
    ELSE LET last == sorted[Len(sorted)] IN
         IF KeyLeq(last, c, withDepth) THEN Append(sorted, c)
         ELSE Append(InsertSorted(SubSeq(sorted, 1, Len(sorted) - 1), c,
                                  withDepth), last)

\* list.sort is stable: the first i elements of cs, sorted.
RECURSIVE StableSort(_, _, _)
StableSort(cs, i, withDepth) ==
    IF i = 0 THEN <<>>
    ELSE InsertSorted(StableSort(cs, i - 1, withDepth), cs[i], withDepth)

\* A plausible slip: the sort key without the depth.
SortByTimestampOnly(cs) == StableSort(cs, Len(cs), FALSE)

\* comments.sort(key=lambda c: (c.timestamp or 0, c.depth))
SortComments(cs) == StableSort(cs, Len(cs), TRUE)

\* _build_comment_tree: resolve the parents, then sort.
BuildCommentTree(cs) == SortComments(ResolveParents(cs, 1))

RECURSIVE DedupFrom(_, _, _, _)
DedupFrom(cs, i, seen, out) ==
    IF i > Len(cs) THEN out
    ELSE IF cs[i].id \in seen THEN DedupFrom(cs, i + 1, seen, out)
    ELSE DedupFrom(cs, i + 1, seen \cup {cs[i].id}, Append(out, cs[i]))

\* A plausible slip: the duplicates are only counted, not removed.
KeepDuplicates(cs) == cs

\* The seen_ids loop of scrape_comments.
RemoveDuplicates(cs) == DedupFrom(cs, 1, {}, <<>>)

NotMerged == [status |-> "none", list |-> <<>>]

TreeInit == comments = <<>> /\ merged = NotMerged

\* The extractor appends one parsed comment to the list of the article
\* (parse_comments of page 1, then comments.extend of the later batches).
ParseComment ==
    /\ merged.status = "none"
    /\ Len(comments) < MaxComments
    /\ \E c \in CommentInputs :
         comments' = Append(comments,
             [id |-> c.id, parent_id |-> c.parent_id, depth |-> c.depth,
              timestamp |-> c.timestamp, pos |-> Len(comments) + 1])
    /\ UNCHANGED <<merged, notTree>>

\* Comments as wpDiscuz pages deliver them: the id is all digits or has the
\* form wpd-comm-<n>_<p>, the parent reference is a short numeric id (the
\* replytocom link) or a full id (data-parent-id); every one is dated.
WpdInputs ==
    [id : CommentIds \cup WpdIds,
     parent_id : {NoParent} \cup CommentIds \cup WpdIds,
     depth : ExtractorDepths]

ParseWpdComment ==
    /\ merged.status = "none"
    /\ Len(comments) < MaxComments
    /\ \E c \in WpdInputs :
         comments' = Append(comments,
             [id |-> c.id, parent_id |-> c.parent_id, depth |-> c.depth,
              timestamp |-> 1, pos |-> Len(comments) + 1])
    /\ UNCHANGED <<merged, notTree>>

\* scrape_comments from "Build proper threading hierarchy" to the return:
\* the tree is built, the duplicates are removed. A TypeError of the sort
\* leaves scrape_comments by exception.
MergeComments ==
    /\ merged.status = "none"
    /\ merged' = IF Len(comments) >= 2 /\ SortRaises(comments)
                 THEN [status |-> "error", list |-> <<>>]
                 ELSE [status |-> "ok",
                       list |-> RemoveDuplicates(BuildCommentTree(comments))]
    /\ UNCHANGED <<comments, notTree>>

(***************************************************************************)
(*              CLAIMS ABOUT THE MERGED COMMENT SET (SpecTree)             *)
(***************************************************************************)

MergedOk == merged.status = "ok"
MergedIdx == 1..Len(merged.list)
InputIdx == 1..Len(comments)

\* C4: every comment of the merged set has depth 0 if its parent_id is null
\* (or was unresolved and therefore reset to null), and otherwise its depth
\* is the depth of the comment of the merged set that its parent_id names,
\* plus one.
C4_DepthInvariant ==
    MergedOk =>
        \A i \in MergedIdx :
            LET c == merged.list[i] IN
            IF c.parent_id = NoParent
            THEN c.depth = 0
            ELSE \E j \in MergedIdx :
                    /\ merged.list[j].id = c.parent_id
                    /\ c.depth = merged.list[j].depth + 1

\* C5: the merged set of one article holds no two comments with the same id.
C5_UniqueIds ==
    MergedOk =>
        \A i, j \in MergedIdx :
            merged.list[i].id = merged.list[j].id => i = j

\* C5 witness: the concatenated batches held the same id twice and the
\* merge returned a set.
C5_Witness ==
    /\ MergedOk
    /\ \E i, j \in InputIdx : i < j /\ comments[i].id = comments[j].id
    /\ Len(merged.list) < Len(comments)

\* C6: the merged set is sorted non-decreasing by (timestamp, depth), with
\* the depths as they are in the merged set.
C6_SortedByTimestampDepth ==
    MergedOk =>
        \A i, j \in MergedIdx :
            i < j => KeyLeq(merged.list[i], merged.list[j], TRUE)

\* C6 witness: a merge that had to reorder: the input was not in
\* (timestamp, depth) order, two comments share a timestamp and differ in
\* their final depth.
C6_Witness ==
    /\ MergedOk
    /\ Len(merged.list) >= 2
    /\ \E i, j \in InputIdx :
         i < j /\ ~KeyLeq(comments[i], comments[j], TRUE)
    /\ \E i, j \in MergedIdx :
         /\ merged.list[i].timestamp = merged.list[j].timestamp
         /\ merged.list[i].depth < merged.list[j].depth

\* C7: for every id of the concatenated batches the merged set keeps exactly
\* one comment with that id, and it is the first occurrence in input order.
C7_FirstOccurrenceKept ==
    MergedOk =>
        \A k \in InputIdx :
            (\A h \in InputIdx : comments[h].id = comments[k].id => k <= h)
            => /\ \E i \in MergedIdx : merged.list[i].pos = k
               /\ \A i \in MergedIdx :
                     merged.list[i].id = comments[k].id
                     => merged.list[i].pos = k

(***************************************************************************)
(*          CLAIMS ABOUT THE PARENT LOOKUP (SpecParents, SpecTree)         *)
(***************************************************************************)

\* The comments of the input that carry pid as their full id, and those
\* filed under pid as short numeric id.
FullIdHits(pid) == {k \in InputIdx : comments[k].id = pid}
NumericHits(pid) == {k \in InputIdx : NumericKey(comments[k].id) = pid}
LastOf(hits) == CHOOSE k \in hits : \A h \in hits : h <= k
\* The comment a parent reference stands for: full id first, short numeric
\* id second.
ParentOf(pid) ==
    IF FullIdHits(pid) # {} THEN LastOf(FullIdHits(pid))
    ELSE LastOf(NumericHits(pid))

\* C31: a comment with a parent reference keeps it if and only if a comment
\* of the input has that full id or that short numeric id (the full id
\* looked up first); otherwise it is in the merged set as a root with no
\* parent and depth 0. The child of a top-level comment is one deeper than
\* that comment.
C31_ParentResolvedOrDemoted ==
    MergedOk =>
        \A i \in MergedIdx :
            LET c == merged.list[i]
                pid == comments[c.pos].parent_id IN
            pid # NoParent =>
               IF FullIdHits(pid) \cup NumericHits(pid) # {}
               THEN /\ c.parent_id = pid
                    /\ comments[ParentOf(pid)].parent_id = NoParent
                        => c.depth = comments[ParentOf(pid)].depth + 1
               ELSE c.parent_id = NoParent /\ c.depth = 0

\* C31 witness: a merged set in which one comment found its parent only by
\* the short numeric id of a wpd-comm id and ended one below that root.
C31_Witness ==
    /\ MergedOk
    /\ \E i \in MergedIdx :
         LET c == merged.list[i]
             pid == comments[c.pos].parent_id IN
         /\ pid # NoParent
         /\ FullIdHits(pid) = {}
         /\ NumericHits(pid) # {}
         /\ c.parent_id = pid
         /\ comments[ParentOf(pid)].depth = 0
         /\ c.depth = 1

RECURSIVE ReachesRoot(_, _, _)
ReachesRoot(list, id, fuel) ==
    LET at == {i \in 1..Len(list) : list[i].id = id} IN
    IF fuel = 0 \/ at = {} THEN FALSE
    ELSE LET c == list[CHOOSE i \in at : TRUE] IN
         IF c.parent_id = NoParent THEN TRUE
         ELSE ReachesRoot(list, c.parent_id, fuel - 1)

\* C40: in every merged set the parent relation is acyclic: no comment is
\* its own parent and the chain of parent references from any comment ends
\* at a root, also when a comment of the input names its own id or two
\* comments name each other.
C40_ParentRelationAcyclic ==
    MergedOk =>
        \A i \in MergedIdx :
            /\ merged.list[i].parent_id # merged.list[i].id
            /\ ReachesRoot(merged.list, merged.list[i].id, Len(merged.list))

(***************************************************************************)
(*                     RATE LIMITER AND HTTP CLIENT                        *)
(***************************************************************************)

\* The clock stops here.
MaxTime == 6
\* time.sleep may return late by up to this much.
MaxOversleep == 1
\* Delays a caller may configure or set (request_delay, set_delay).
MaxSetDelay == 3
\* _last_request = None: no request yet.
NoRequestYet == -1
\* The cap of the adaptive delay in _handle_rate_limit.
DelayCap == 30

NoLog == [n |-> 0, prevStart |-> 0, prevEnd |-> 0, curStart |-> 0,
          curEnd |-> 0, curDelay |-> 0, curKind |-> "none", prevKind |-> "none",
          slept |-> FALSE, delaySet |-> FALSE, delayChanged |-> FALSE,
          cur429 |-> FALSE]

RateFrozen == now = 0 /\ delay = 0 /\ last_request = NoRequestYet
              /\ busy = FALSE /\ reqlog = NoLog
TreeFrozen == TreeInit

\* A plausible slip: the limiter computes the pause but never sleeps.
NoSleep(elapsed, d) == 0

\* sleep_time = self.delay - elapsed
SleepTime(elapsed, d) == d - elapsed

\* A plausible slip: the stamp is taken before the sleep.
StampBeforeSleep(before, after) == before

\* self._last_request = time.time(), read after the sleep.
StampTime(before, after) == after

\* RateLimiter.wait decides to sleep.
MustSleep == last_request # NoRequestYet /\ now - last_request < delay

\* The time at which RateLimiter.wait returns, with the sleep late by over.
WakeTime(over) ==
    IF MustSleep THEN now + SleepTime(now - last_request, delay) + over ELSE now

\* new_delay = min(current_delay * 2, 30)
HandleRateLimit(d) == Min(d * 2, DelayCap)

RequestKinds == {"get", "post", "download_image"}

\* HTTPClient.get / post / download_image up to the call of the session:
\* every one of them passes RateLimiter.wait first. The request starts when
\* wait returns.
StartRequest(kind) ==
    /\ ~busy
    /\ \E over \in 0..MaxOversleep :
         /\ over = 0 \/ MustSleep
         /\ WakeTime(over) <= MaxTime
         /\ now' = WakeTime(over)
         /\ last_request' = StampTime(now, WakeTime(over))
         /\ reqlog' = [n |-> Min(reqlog.n + 1, 2),
                       prevStart |-> reqlog.curStart,
                       prevEnd |-> reqlog.curEnd,
                       curStart |-> WakeTime(over),
                       curEnd |-> WakeTime(over),
                       curDelay |-> delay,
                       curKind |-> kind,
                       prevKind |-> reqlog.curKind,
                       slept |-> MustSleep,
                       delaySet |-> FALSE,
                       delayChanged |-> reqlog.delaySet,
                       cur429 |-> FALSE]
    /\ busy' = TRUE
    /\ UNCHANGED <<delay, notRate>>

Get == StartRequest("get")
Post == StartRequest("post")
DownloadImage == StartRequest("download_image")

Outcomes == {"ok", "http404", "http429", "error"}

\* The session call returns or raises. Only get reacts to a 429 HTTPError,
\* by _handle_rate_limit.
Complete ==
    /\ busy
    /\ \E outcome \in Outcomes :
         /\ delay' = IF reqlog.curKind = "get" /\ outcome = "http429"
                     THEN HandleRateLimit(delay) ELSE delay
         /\ reqlog' = [reqlog EXCEPT !.curEnd = now,
                                     !.delaySet = @ \/ delay' # delay,
                                     !.cur429 = (outcome = "http429")]
    /\ busy' = FALSE
    /\ UNCHANGED <<now, last_request, notRate>>

\* RateLimiter.set_delay called by the owner of the client between requests.
SetDelay ==
    /\ ~busy
    /\ \E d \in 0..MaxSetDelay :
         /\ d # delay
         /\ delay' = d
    /\ reqlog' = [reqlog EXCEPT !.delaySet = TRUE]
    /\ UNCHANGED <<now, last_request, busy, notRate>>

\* Time passes, during a request or between two.
Tick ==
    /\ now < MaxTime
    /\ now' = now + 1
    /\ UNCHANGED <<delay, last_request, busy, reqlog, notRate>>

\* HTTPClient.__init__: RateLimiter(delay=config.request_delay).
RateInit ==
    /\ now = 0
    /\ delay \in 0..MaxSetDelay
    /\ last_request = NoRequestYet
    /\ busy = FALSE
    /\ reqlog = NoLog

(***************************************************************************)
(*                 CLAIMS ABOUT THE RATE LIMITER (SpecRate)                *)
(***************************************************************************)
\* reqlog holds, for the last two requests of the client, the time each
\* started (its RateLimiter.wait returned), the time the earlier one ended,
\* the delay in force at the later start, and whether the delay was changed
\* between the two starts; and whether the later one was answered with 429.

\* C8: two consecutive requests of one client, whatever their kinds and
\* whether or not the delay was changed in between, start at least
\* (the delay in force at the second start) apart.
C8_StartToStart ==
    reqlog.n >= 2 => reqlog.curStart - reqlog.prevStart >= reqlog.curDelay

\* C8 witness: a second request of another kind that had to sleep, after the
\* delay was changed, and started exactly one delay after the first.
C8_Witness ==
    /\ reqlog.n >= 2
    /\ reqlog.slept
    /\ reqlog.delayChanged
    /\ reqlog.curKind # reqlog.prevKind
    /\ reqlog.curDelay > 0
    /\ reqlog.curStart - reqlog.prevStart = reqlog.curDelay

\* C9 as stated: the next request starts at least one delay after the
\* previous request RETURNED.
C9_EndToStart ==
    reqlog.n >= 2 => reqlog.curStart - reqlog.prevEnd >= reqlog.curDelay

\* C9 amended: the interval is measured from the START of the previous
\* request: the gap after its end is at least the delay less the time the
\* previous request took, so a request that took a full delay or more can be
\* followed at once.
C9_EndToStartLessDuration ==
    reqlog.n >= 2 =>
        reqlog.curStart - reqlog.prevEnd
            >= Max(0, reqlog.curDelay - (reqlog.prevEnd - reqlog.prevStart))

\* C9 witness: the previous request took at least one delay and the next one
\* started the moment it ended.
C9_Witness ==
    /\ reqlog.n >= 2
    /\ reqlog.curDelay > 0
    /\ reqlog.prevEnd - reqlog.prevStart >= reqlog.curDelay
    /\ reqlog.curStart = reqlog.prevEnd

\* C27: when a request of the client, GET or POST, is answered with 429,
\* the delay of the limiter becomes min(2 * delay, 30) as the request ends,
\* before any other request; and a delay that a 429 has set is at most 30.
C27_DoublesOn429 ==
    /\ [][(busy /\ ~busy' /\ reqlog'.cur429)
          => delay' = Min(2 * delay, DelayCap)]_vars
    /\ [](reqlog.cur429 => delay <= DelayCap)

\* Delays a run may be configured with (--delay, request_delay of the
\* configuration file): any number of seconds, above the cap of the
\* adaptive delay included.
ConfiguredDelays == {1, 2, 20, 40}

\* HTTPClient.__init__ with one of these delays.
ThrottleInit ==
    /\ now = 0
    /\ delay \in ConfiguredDelays
    /\ last_request = NoRequestYet
    /\ busy = FALSE
    /\ reqlog = NoLog

\* C38: the delay of the limiter never decreases during the life of a
\* client: for every configured delay and every sequence of responses,
\* each change the adaptive throttling makes leaves it greater than or
\* equal to what it was.
C38_DelayNeverDecreases == [][delay' >= delay]_vars

(***************************************************************************)
(*              THREADS SHARING ONE RateLimiter (SpecThreads)              *)
(***************************************************************************)

Threads == {1, 2}
NoThread == 0

\* The last two returns of wait: when and by which thread, the smallest
\* delay in force between them (gapLeast), whether set_delay was called
\* between them, and whether the later thread had found the lock taken.
\* runLeast and runSet collect the same for the interval under way.
NoPass == [n |-> 0, prev |-> 0, cur |-> 0, prevBy |-> NoThread,
           curBy |-> NoThread, gapLeast |-> 0, gapSet |-> FALSE,
           queued |-> FALSE, runLeast |-> 0, runSet |-> FALSE]

ThrIdle ==
    /\ tpc = [t \in Threads |-> "idle"]
    /\ lock = NoThread
    /\ wake = [t \in Threads |-> 0]
ThrFrozen == ThrIdle /\ passlog = NoPass

\* RateLimiter(delay): threads are started on a fresh limiter.
ThreadsInit ==
    /\ now = 0 /\ delay \in 0..MaxSetDelay /\ last_request = NoRequestYet
    /\ busy = FALSE /\ reqlog = NoLog
    /\ ThrIdle
    /\ passlog = [NoPass EXCEPT !.runLeast = delay]

\* A plausible slip: the sleep is taken outside the with block.
ReleasedWhileSleeping(t) == NoThread

\* with self._lock: the lock is held through time.sleep.
LockWhileSleeping(t) == t

\* self._last_request = time.time() as the last statement of wait.
Pass(t) ==
    [passlog EXCEPT !.n = Min(@ + 1, 2),
                    !.prev = passlog.cur, !.cur = now,
                    !.prevBy = passlog.curBy, !.curBy = t,
                    !.gapLeast = passlog.runLeast,
                    !.gapSet = passlog.runSet,
                    !.queued = (tpc[t] = "queued"
                                \/ (tpc[t] = "sleeping" /\ passlog.queued)),
                    !.runLeast = delay, !.runSet = FALSE]

\* A thread calls wait(); the lock may be taken.
WaitCall(t) ==
    /\ tpc[t] = "idle"
    /\ tpc' = [tpc EXCEPT ![t] = IF lock = NoThread THEN "blocked"
                                 ELSE "queued"]
    /\ UNCHANGED <<lock, wake, passlog, now, delay, last_request, notThr>>

\* The thread gets the lock: it stamps and returns at once, or goes to
\* sleep for delay - elapsed.
WaitEnter(t) ==
    /\ tpc[t] \in {"blocked", "queued"}
    /\ lock = NoThread
    /\ IF MustSleep
       THEN /\ tpc' = [tpc EXCEPT ![t] = "sleeping"]
            /\ lock' = LockWhileSleeping(t)
            /\ wake' = [wake EXCEPT
                          ![t] = now + SleepTime(now - last_request, delay)]
            /\ passlog' = [passlog EXCEPT !.queued = (tpc[t] = "queued")]
            /\ UNCHANGED last_request
       ELSE /\ tpc' = [tpc EXCEPT ![t] = "idle"]
            /\ last_request' = StampTime(now, now)
            /\ passlog' = Pass(t)
            /\ UNCHANGED <<lock, wake>>
    /\ UNCHANGED <<now, delay, notThr>>

\* time.sleep returns, on time or late; the thread stamps, releases the
\* lock and returns.
WaitWake(t) ==
    /\ tpc[t] = "sleeping"
    /\ now >= wake[t]
    /\ tpc' = [tpc EXCEPT ![t] = "idle"]
    /\ wake' = [wake EXCEPT ![t] = 0]
    /\ lock' = NoThread
    /\ last_request' = StampTime(now, now)
    /\ passlog' = Pass(t)
    /\ UNCHANGED <<now, delay, notThr>>

\* set_delay from any thread: it takes the same lock.
SetDelayLocked ==
    /\ lock = NoThread
    /\ \E d \in 0..MaxSetDelay :
         /\ d # delay
         /\ delay' = d
         /\ passlog' = [passlog EXCEPT !.runLeast = Min(@, d),
                                       !.runSet = TRUE]
    /\ UNCHANGED <<tpc, lock, wake, now, last_request, notThr>>

ThreadCalls == \E t \in Threads : WaitCall(t)
ThreadEnters == \E t \in Threads : WaitEnter(t)
ThreadWakes == \E t \in Threads : WaitWake(t)

\* C35: with several threads on one RateLimiter, two consecutive returns of
\* wait, by the same thread or by two, are at least the delay apart, and at
\* least the smallest delay in force between them when set_delay was
\* called in between.
C35_GlobalMinimumInterval ==
    passlog.n >= 2 => passlog.cur - passlog.prev >= passlog.gapLeast

\* C35 witness: a thread that found the lock taken while another slept,
\* after a set_delay, returned exactly one delay after the other.
C35_Witness ==
    /\ passlog.n >= 2
    /\ passlog.curBy # passlog.prevBy
    /\ passlog.queued
    /\ passlog.gapSet
    /\ passlog.gapLeast > 0
    /\ passlog.cur - passlog.prev = passlog.gapLeast

(***************************************************************************)
(*                  RETRY WITH BACKOFF (get_with_retry)                    *)
(***************************************************************************)
\* One client, its calls of get_with_retry one after the other. Time is not
\* counted in this part: what is kept of every time.sleep is its duration.

\* The largest config.max_retries and max_attempts argument.
MaxAttempts == 3
\* The largest config.request_delay.
MaxBaseDelay == 1
\* random.uniform(0, 1), in whole seconds.
Jitter == {0, 1}
\* max_attempts: int = None
NoArgument == 0

RetryIdle ==
    /\ rpc = "idle" /\ max_attempts = 0 /\ attempt = 0
    /\ tries = <<>> /\ sleeps = <<>> /\ waits = 0
RetryFrozen == RetryIdle /\ max_retries = 0 /\ base_delay = 0

\* HTTPClient.__init__: the limiter starts at config.request_delay.
RetryInit ==
    /\ RetryIdle
    /\ max_retries \in 0..MaxAttempts
    /\ base_delay \in 0..MaxBaseDelay
    /\ delay = base_delay
    /\ now = 0 /\ last_request = NoRequestYet /\ busy = FALSE /\ reqlog = NoLog

\* max_attempts = max_attempts or self.config.max_retries: None and 0 are
\* both replaced by the configured value.
DefaultAttempts(arg, configured) == IF arg = NoArgument THEN configured ELSE arg

\* A plausible slip: the same pause before every retry.
ConstantBackoff(base, k) == base

\* base_delay * (2 ** attempt)
Backoff(base, k) == base * (2 ^ k)

Ended == {"returned", "none", "raised"}

\* get_with_retry is called: the default is applied and the for loop is
\* entered. range(max_attempts) is empty when max_attempts is 0, and the
\* statement after the loop returns None.
GetWithRetry ==
    /\ rpc \in Ended \cup {"idle"}
    /\ \E arg \in {NoArgument} \cup 1..MaxAttempts :
         /\ max_attempts' = DefaultAttempts(arg, max_retries)
         /\ rpc' = IF max_attempts' = 0 THEN "none" ELSE "get"
    /\ attempt' = 0
    /\ tries' = <<>>
    /\ sleeps' = <<>>
    /\ waits' = 0
    /\ UNCHANGED <<max_retries, base_delay, delay, notRetry>>

\* self.get(url) inside the loop: RateLimiter.wait, the request, and what
\* get and get_with_retry do with its outcome. http429 stands for every
\* HTTPError get_with_retry retries (get doubles the delay for a 429 only),
\* error for a RequestException that is not an HTTPError.
RetryGet ==
    /\ rpc = "get"
    /\ waits' = waits + 1
    /\ \E outcome \in Outcomes :
         /\ tries' = Append(tries, outcome)
         /\ delay' = IF outcome = "http429" THEN HandleRateLimit(delay)
                     ELSE delay
         /\ rpc' = CASE outcome = "ok" -> "returned"
                     [] outcome = "http404" -> "none"
                     [] OTHER -> IF attempt < max_attempts - 1 THEN "sleep"
                                 ELSE "raised"
    /\ UNCHANGED <<max_retries, base_delay, max_attempts, attempt, sleeps,
                   notRetry>>

\* delay = base_delay * (2 ** attempt) + random.uniform(0, 1);
\* time.sleep(delay); the for loop moves to the next attempt.
RetrySleep ==
    /\ rpc = "sleep"
    /\ \E j \in Jitter :
         sleeps' = Append(sleeps, Backoff(base_delay, attempt) + j)
    /\ attempt' = attempt + 1
    /\ rpc' = "get"
    /\ UNCHANGED <<max_retries, base_delay, max_attempts, tries, waits, delay,
                   notRetry>>

(***************************************************************************)
(*                CLAIMS ABOUT get_with_retry (SpecRetry)                  *)
(***************************************************************************)
Got404 == \E i \in 1..Len(tries) : tries[i] = "http404"
AllFailed == \A i \in 1..Len(tries) : tries[i] \in {"http429", "error"}

\* C21: a 404 is never followed by another attempt; the call returns None
\* exactly when an attempt received a 404; and a call whose every attempt
\* failed otherwise ends by raising, whatever max_retries is, 0 included.
C21_NotFoundIffA404 ==
    /\ \A i \in 1..Len(tries) : tries[i] = "http404" => i = Len(tries)
    /\ rpc = "none" <=> Got404
    /\ (rpc \in Ended /\ AllFailed) => rpc = "raised"

MaxPages == 3
\* The comment of the article page, and the comment the load-more endpoint
\* of wpDiscuz would return.
InitialComment == 1
IncrementalComment == 0

\* What one comment page URL gave: a page (and its comments), not-found
\* (get_with_retry returned None), or an exception once the retries are
\* used up.
Untried == [kind |-> "untried", batch |-> <<>>]
NoPages == [n \in 2..MaxPages |-> [primary |-> Untried, alt |-> Untried]]
PageAnswers(n) ==
    {[kind |-> "notfound", batch |-> <<>>], [kind |-> "error", batch |-> <<>>],
     [kind |-> "ok", batch |-> <<>>], [kind |-> "ok", batch |-> <<n>>],
     [kind |-> "ok", batch |-> <<InitialComment>>]}

AcqIdle ==
    /\ cpc = "idle" /\ total_pages = 1 /\ page_num = 0
    /\ paginated_comments = <<>> /\ load_more = FALSE
    /\ tried = NoPages /\ handed = <<>> /\ saved = <<>>
AcqFrozen == AcqIdle

\* scrape_comments up to the pagination: the article page is at hand or is
\* fetched (no page: return []), parse_comments gives the initial batch, and
\* _get_total_comment_pages the number of comment pages.
ScrapeCommentsStart ==
    /\ cpc \in {"idle", "done", "empty"}
    /\ \E fetched \in BOOLEAN, total \in 1..MaxPages, button \in BOOLEAN :
         IF ~fetched
         THEN /\ cpc' = "empty"
              /\ total_pages' = 1 /\ load_more' = FALSE /\ page_num' = 0
         ELSE /\ total_pages' = total
              /\ load_more' = button
              /\ cpc' = IF total > 1 THEN "primary" ELSE "tree"
              /\ page_num' = IF total > 1 THEN 2 ELSE 0
    /\ paginated_comments' = <<>>
    /\ tried' = NoPages
    /\ handed' = <<>>
    /\ saved' = <<>>
    /\ UNCHANGED notAcq

\* for page_num in range(2, total_pages + 1): the next page, or the end of
\* _scrape_paginated_comments.
NextCommentPage ==
    /\ page_num' = page_num + 1
    /\ cpc' = IF page_num + 1 > total_pages THEN "tree" ELSE "primary"

\* What follows the request of the primary URL: a response goes to the
\* parser, None takes the else branch to the alternate URL, an exception is
\* caught by the except clause at the end of the loop body.
AfterPrimary(kind) == IF kind = "notfound" THEN "alt" ELSE "next"

\* _scrape_paginated_comments: get_with_retry of .../comment-page-N/.
FetchCommentPage ==
    /\ cpc = "primary"
    /\ \E ans \in PageAnswers(page_num) :
         /\ tried' = [tried EXCEPT ![page_num].primary = ans]
         /\ paginated_comments' = paginated_comments \o ans.batch
         /\ IF AfterPrimary(ans.kind) = "alt"
            THEN cpc' = "alt" /\ UNCHANGED page_num
            ELSE NextCommentPage
    /\ UNCHANGED <<total_pages, load_more, handed, saved>>
    /\ UNCHANGED notAcq

\* _scrape_paginated_comments: get_with_retry of ...?cpage=N.
FetchAlternate ==
    /\ cpc = "alt"
    /\ \E ans \in PageAnswers(page_num) :
         /\ tried' = [tried EXCEPT ![page_num].alt = ans]
         /\ paginated_comments' = paginated_comments \o ans.batch
    /\ NextCommentPage
    /\ UNCHANGED <<total_pages, load_more, handed, saved>>
    /\ UNCHANGED notAcq

\* The comments of the batches as records of the tree builder: top-level
\* and dated, a comment served by two pages has one id.
AsComments(list) ==
    [i \in 1..Len(list) |->
        [id |-> list[i], parent_id |-> NoParent, depth |-> 0,
         timestamp |-> 1, pos |-> i]]

\* comments = self._build_comment_tree(comments), then the seen_ids loop:
\* the ids of the merged set, in its order.
MergedIds(list) ==
    LET m == RemoveDuplicates(BuildCommentTree(AsComments(list))) IN
    [i \in 1..Len(m) |-> m[i].id]

\* A plausible slip: every comment is stored by a call of its own.
SaveOneByOne(list) == [i \in 1..Len(list) |-> <<list[i]>>]

\* if comments: self.db.add_comments(comments): the calls of add_comments.
SaveComments(list) == IF list # <<>> THEN <<list>> ELSE <<>>

\* scrape_comments after the pagination: comments.extend(paginated_comments),
\* the call of _build_comment_tree(comments), the removal of duplicates and
\* the save. Nothing between the first two calls _load_ajax_comments.
HandToTreeBuilder ==
    /\ cpc = "tree"
    /\ handed' = <<InitialComment>> \o paginated_comments
    /\ saved' = SaveComments(MergedIds(<<InitialComment>> \o paginated_comments))
    /\ cpc' = "done"
    /\ UNCHANGED <<total_pages, page_num, paginated_comments, load_more, tried>>
    /\ UNCHANGED notAcq

(***************************************************************************)
(*             CLAIMS ABOUT THE COMMENT ACQUISITION (SpecAcquire)          *)
(***************************************************************************)
\* The pages of the article whose turn in the loop is over.
PagesDone ==
    {n \in 2..total_pages :
        n < page_num \/ cpc \in {"tree", "done"}}

\* C28: for every comment page N of 2..total whose primary URL gave no
\* successful response, not-found or an error after the retries, the
\* alternate ?cpage=N URL was tried; and every page of 2..total is
\* requested, also after a page whose two URLs failed.
C28_AlternateTriedAfterFailure ==
    /\ \A n \in PagesDone :
          tried[n].primary.kind \in {"notfound", "error"}
             => tried[n].alt.kind # "untried"
    /\ cpc = "done" =>
          \A n \in 2..total_pages : tried[n].primary.kind # "untried"

\* The batches the comment pages n..total gave, in the order of the pages.
RECURSIVE BatchesFrom(_)
BatchesFrom(n) ==
    IF n > total_pages THEN <<>>
    ELSE tried[n].primary.batch \o tried[n].alt.batch \o BatchesFrom(n + 1)

\* The batches the load-more endpoint holds for an article page that
\* carries the button.
IncrementalBatches == IF load_more THEN <<IncrementalComment>> ELSE <<>>

\* C30: the list handed to the tree builder is the initial batch, then the
\* batch of every comment page in page order, then the incremental
\* load-more batches, which are acquired whenever the article page signals
\* that more comments can be loaded.
C30_HandedIsAllBatches ==
    cpc = "done" =>
        handed = <<InitialComment>> \o BatchesFrom(2) \o IncrementalBatches

\* The ids of a list of comments.
IdsOf(list) == {list[i] : i \in 1..Len(list)}

\* C33: within one article add_comments is called at most once, after the
\* last fetch of a comment page and after tree building and deduplication,
\* and with the merged set: every id of the concatenated batches once.
C33_SavedOnceAfterMerge ==
    /\ [](Len(saved) <= 1)
    /\ [](saved # <<>> =>
            /\ cpc = "done"
            /\ PagesDone = 2..total_pages
            /\ IdsOf(saved[1]) = IdsOf(handed)
            /\ \A i, j \in 1..Len(saved[1]) :
                  saved[1][i] = saved[1][j] => i = j)
    /\ [][saved # <<>> => (tried' = tried \/ saved' = <<>>)]_vars

\* C33 witness: an article with three comment pages, one of which served
\* the comments of the first page again; the merged set was saved by one
\* call and is shorter than the concatenation.
C33_Witness ==
    /\ cpc = "done" /\ total_pages = 3
    /\ Len(saved) = 1
    /\ Len(saved[1]) = 2 /\ Len(handed) = 3

(***************************************************************************)
(*          INCREMENTAL LOADING (CommentScraper._load_ajax_comments)       *)
(***************************************************************************)
\* The largest config.max_comment_load_attempts.
MaxLoadAttempts == 3
\* The numbers of comments parse_comments finds in one answer.
BatchSizes == {0, 1, 2}
\* The numbers of comments already loaded when the call is made.
InitialCounts == {0, 1}

\* The answers to one POST: failed (post raised, or a status other than
\* 200), html (a body that is not JSON, parsed as comments), json (success
\* with an object as data: its comments and its loadMore flag, true when
\* absent), json_text (success with data that is not an object), refused
\* (success false).
LoadAnswers ==
    {[kind |-> k, n |-> 0, more |-> FALSE] : k \in {"failed", "refused"}}
    \cup {[kind |-> k, n |-> n, more |-> FALSE] :
            k \in {"html", "json_text"}, n \in BatchSizes}
    \cup {[kind |-> "json", n |-> n, more |-> m] :
            n \in BatchSizes, m \in BOOLEAN}

LoadIdle ==
    /\ lpc = "idle" /\ initial_count = 0 /\ attempts = 0 /\ offset = 0
    /\ sent = <<>> /\ got = <<>>
LoadFrozen == LoadIdle /\ max_load = 0
LoadInit == LoadIdle /\ max_load \in 0..MaxLoadAttempts

\* The comments of an answer that the loop adds to all_comments.
Added(r) == IF r.kind \in {"html", "json", "json_text"} THEN r.n ELSE 0

\* A plausible slip: the loadMore flag of the payload is not looked at.
IgnoresLoadMore(r) == r.kind \in {"html", "json"} /\ r.n > 0

\* The loop goes on after an answer: a non-empty html batch (continue), or a
\* non-empty json batch whose loadMore flag is not false. Every other path
\* of the loop body is a break; data that is not an object has no get and
\* ends in the except clause.
GoesOn(r) ==
    \/ r.kind = "html" /\ r.n > 0
    \/ r.kind = "json" /\ r.n > 0 /\ r.more

\* _load_ajax_comments is called: without a load-more button in the page it
\* returns [] at once.
LoadAjaxComments ==
    /\ lpc \in {"idle", "returned"}
    /\ \E count \in InitialCounts, button \in BOOLEAN :
         /\ initial_count' = count
         /\ offset' = count
         /\ lpc' = IF button /\ 0 < max_load THEN "loop" ELSE "returned"
    /\ attempts' = 0
    /\ sent' = <<>>
    /\ got' = <<>>
    /\ UNCHANGED <<max_load, notLoad>>

\* One pass of while attempts < max_attempts: the POST with the current
\* offset, the answer, and the test of the loop for the next pass.
LoadMore ==
    /\ lpc = "loop"
    /\ attempts < max_load
    /\ attempts' = attempts + 1
    /\ sent' = Append(sent, offset)
    /\ \E r \in LoadAnswers :
         /\ got' = Append(got, r)
         /\ offset' = offset + Added(r)
         /\ lpc' = IF GoesOn(r) /\ attempts + 1 < max_load THEN "loop"
                   ELSE "returned"
    /\ UNCHANGED <<max_load, initial_count, notLoad>>

(***************************************************************************)
(*            CLAIMS ABOUT THE INCREMENTAL LOADING (SpecLoadMore)          *)
(***************************************************************************)
\* An answer after which the loop has to stop: an unsuccessful response, an
\* empty batch, or a payload that says there is no more.
MustStop(r) ==
    \/ r.kind \in {"failed", "refused"}
    \/ r.n = 0
    \/ r.kind = "json" /\ ~r.more

RECURSIVE Received(_)
Received(k) == IF k = 0 THEN 0 ELSE got[k].n + Received(k - 1)

\* C29: a call makes at most max_comment_load_attempts POST requests; no
\* request follows an answer that is unsuccessful, empty, or says there is
\* no more; the offset of each request is the initial count plus the number
\* of comments of the earlier answers; and the loop always ends.
C29_LoadMoreIsBounded ==
    /\ [](Len(sent) <= max_load /\ Len(sent) = attempts)
    /\ [](\A i \in 1..Len(got) :
            MustStop(got[i]) => (i = Len(got) /\ lpc = "returned"))
    /\ [](\A i \in 1..Len(sent) : sent[i] = initial_count + Received(i - 1))
    /\ (lpc = "loop") ~> (lpc = "returned")

\* C29 witness: a call with one comment loaded before it has used its three
\* attempts, sending the offsets 1, 3 and 4, and has returned although the
\* third answer announced more comments.
C29_Witness ==
    /\ lpc = "returned"
    /\ max_load = 3
    /\ initial_count = 1
    /\ sent = <<1, 3, 4>>
    /\ GoesOn(got[3])

(***************************************************************************)
(*        IMAGE DOWNLOAD (CommentScraper.download_comment_images)          *)
(***************************************************************************)

\* Download requests counted per URL.
MaxImageRequests == 3
ImageUrls == {1, 2}
ImageOwners == {1, 2}

\* The ImageRef objects the parser makes for the comments of an article:
\* one object per occurrence of an image in a comment, downloaded = False.
ImageRefs == [comment : ImageOwners, url : ImageUrls, downloaded : {FALSE}]
RefLists ==
    {<<a>> : a \in ImageRefs}
    \cup {p \in ImageRefs \X ImageRefs : p[1].comment <= p[2].comment}

\* No row of the images table: add_image is not called by the package.
ImgIdle ==
    /\ image_refs = <<>> /\ image_idx = 0
    /\ image_rows = [u \in ImageUrls |-> "absent"]
    /\ image_requests = [u \in ImageUrls |-> 0]
    /\ image_done = {}
ImgFrozen == ImgIdle

\* mark_image_downloaded: UPDATE images SET downloaded = 1
\* WHERE original_url = ?; no row, no change.
MarkImageDownloaded(tbl, u) ==
    IF tbl[u] = "absent" THEN tbl ELSE [tbl EXCEPT ![u] = "downloaded"]

\* download_comment_images(comments, article.id), called by
\* _scrape_articles with the comments scrape_comments has just parsed;
\* with download_images off it returns 0 at once.
DownloadCommentImages ==
    /\ image_idx = 0 \/ image_idx > Len(image_refs)
    /\ \E refs \in RefLists, download_images \in BOOLEAN :
         /\ image_refs' = refs
         /\ image_idx' = IF download_images THEN 1 ELSE Len(refs) + 1
    /\ UNCHANGED <<image_rows, image_requests, image_done>>
    /\ UNCHANGED notImg

\* One turn of the loop over comment.images: a reference whose own flag is
\* set is skipped, any other is requested; on success the object is
\* flagged and mark_image_downloaded is called.
DownloadNextImage ==
    /\ image_idx \in 1..Len(image_refs)
    /\ LET ref == image_refs[image_idx] IN
       IF ref.downloaded
       THEN UNCHANGED <<image_refs, image_rows, image_requests, image_done>>
       ELSE /\ image_requests[ref.url] < MaxImageRequests
            /\ image_requests' =
                  [image_requests EXCEPT ![ref.url] = @ + 1]
            /\ \E success \in BOOLEAN :
                 IF success
                 THEN /\ image_refs' =
                           [image_refs EXCEPT ![image_idx].downloaded = TRUE]
                      /\ image_done' = image_done \cup {ref.url}
                      /\ image_rows' = MarkImageDownloaded(image_rows, ref.url)
                 ELSE UNCHANGED <<image_refs, image_rows, image_done>>
    /\ image_idx' = image_idx + 1
    /\ UNCHANGED notImg

\* C34: once a reference with a given original URL is flagged downloaded,
\* no further download request is issued for that URL, also when the URL
\* occurs in several comments or the article is processed again.
C34_DownloadedOnce ==
    [][\A u \in ImageUrls :
          u \in image_done => image_requests'[u] = image_requests[u]]_vars

(***************************************************************************)
(*                        PROGRESS DATABASE                                *)
(***************************************************************************)

\* Article URLs the listing pages may link.
NUrls == 3

Urls == 1..NUrls
\* The months generate_archive_months yields for the configured range, in
\* order: a range of two months.
Months == {1, 2}
NMonths == Cardinality(Months)

\* The /YYYY/MM/ of an article URL, as an index of Months.
UrlMonth(u) == ((u - 1) % NMonths) + 1
\* Whether the /YYYY/MM/DD/ of the URL lies within [start_date, end_date]:
\* the URLs beyond the first NMonths carry a day outside of the range.
UrlInRange(u) == u <= NMonths

\* No row with this primary key.
NoRow == [status |-> "absent", retry_count |-> 0, error |-> FALSE, disc |-> 0]
NoMonth == [status |-> "absent", article_count |-> 0]

RowCount(tbl) == Cardinality({u \in Urls : tbl[u].status # "absent"})

\* A plausible slip: a plain INSERT OR REPLACE, which writes a fresh pending
\* row and reports a row count of 1 also for a known URL.
InsertOrReplace(tbl, u) ==
    [tbl |-> [tbl EXCEPT ![u] = [status |-> "pending", retry_count |-> 0,
                                 error |-> FALSE,
                                 disc |-> IF tbl[u].status = "absent"
                                          THEN RowCount(tbl) + 1
                                          ELSE tbl[u].disc]],
     added |-> 1]

\* INSERT OR IGNORE INTO articles (url, title, discovered_at, status)
\* VALUES (?, ?, now, 'pending'), and cursor.rowcount > 0. discovered_at is
\* kept as the rank of the insertion.
InsertOrIgnore(tbl, u) ==
    IF tbl[u].status = "absent"
    THEN [tbl |-> [tbl EXCEPT ![u] = [status |-> "pending", retry_count |-> 0,
                                      error |-> FALSE,
                                      disc |-> RowCount(tbl) + 1]],
          added |-> 1]
    ELSE [tbl |-> tbl, added |-> 0]

\* add_article_stubs: the loop over the stubs from index i, in one
\* transaction; acc carries the table and the count so far.
RECURSIVE AddArticleStubsFrom(_, _, _)
AddArticleStubsFrom(acc, stubs, i) ==
    IF i > Len(stubs) THEN acc
    ELSE LET r == InsertOrIgnore(acc.tbl, stubs[i]) IN
         IF r.added > 0
         THEN AddArticleStubsFrom([tbl |-> r.tbl, added |-> acc.added + 1],
                                  stubs, i + 1)
         ELSE AddArticleStubsFrom(acc, stubs, i + 1)

AddArticleStubs(tbl, stubs) ==
    AddArticleStubsFrom([tbl |-> tbl, added |-> 0], stubs, 1)

\* A plausible slip: INSERT OR REPLACE, which resets a known month.
ResetArchiveMonth(tbl, m) ==
    [tbl EXCEPT ![m] = [status |-> "pending", article_count |-> 0]]

\* add_archive_month: INSERT OR IGNORE ... VALUES (?, 'pending')
AddArchiveMonth(tbl, m) ==
    IF tbl[m].status = "absent"
    THEN [tbl EXCEPT ![m] = [status |-> "pending", article_count |-> 0]]
    ELSE tbl

\* mark_archive_month_complete
MarkArchiveMonthComplete(tbl, m, n) ==
    IF tbl[m].status = "absent" THEN tbl
    ELSE [tbl EXCEPT ![m] = [status |-> "complete", article_count |-> n]]

\* is_archive_month_complete
IsArchiveMonthComplete(tbl, m) == tbl[m].status = "complete"

\* The comment id and the texts of the store operations of the model.
CommentKeys == {1}
CommentTexts == {1, 2}
\* No row with this comment_id.
NoComment == 0

\* No store method called yet. returned is the value the call returned (a
\* count, or 1 for True), raised whether it raised instead, dirty whether
\* the statements it had executed before raising had changed a table.
\* key is the primary key a single-row insert was called with.
NoKey == 0
\* No row with this comment_id: no article_url, no content.
NoCommentRow == [article |-> NoKey, text |-> NoComment]
NoCall == [name |-> "none", key |-> NoKey, returned |-> 0, raised |-> FALSE,
           dirty |-> FALSE]

Returns(name, key, value) ==
    [name |-> name, key |-> key, returned |-> value, raised |-> FALSE,
     dirty |-> FALSE]
Raises(name, dirty) ==
    [name |-> name, key |-> NoKey, returned |-> 0, raised |-> TRUE,
     dirty |-> dirty]

\* A plausible slip: the connection commits what was executed before the
\* error.
KeepPartial(before, work) == work

\* _get_connection, except Exception: conn.rollback(); raise. The tables
\* are as before the with block.
Rollback(before, work) == before

\* add_comments: INSERT OR REPLACE INTO comments, for the rows from index i.
RECURSIVE AddCommentsFrom(_, _, _)
AddCommentsFrom(tbl, cs, i) ==
    IF i > Len(cs) THEN tbl
    ELSE AddCommentsFrom(
            [tbl EXCEPT ![cs[i].id] = [article |-> cs[i].article,
                                       text |-> cs[i].text]], cs, i + 1)

AddComments(tbl, cs) == AddCommentsFrom(tbl, cs, 1)

\* ScraperDatabase.__init__ on a fresh file: empty tables.
DbInit ==
    /\ articles = [u \in Urls |-> NoRow]
    /\ archive_months = [m \in Months |-> NoMonth]
    /\ comment_rows = [c \in CommentKeys |-> NoCommentRow]
    /\ op = NoCall

(***************************************************************************)
(*                        ARCHIVE DISCOVERY                                *)
(***************************************************************************)

\* Discovery runs that may run to their end.
MaxRuns == 2
\* The site answers the canonical page and page/2/ of a month freely; every
\* later page is answered like page/2/ (a listing that paginates without end).
FreePages == {1, 2}
\* if page > 50: break
PageCap == 50

\* A listing page as parse_article_listing returns it: distinct article URLs.
\* The pages of the model link at most one article.
Listings == {<<>>} \cup {<<u>> : u \in Urls}

\* What get_with_retry and the listing extractor make of one listing URL:
\* a page, not-found (None), or an exception once the retries are used up.
Answers ==
    {[kind |-> "notfound", stubs |-> <<>>], [kind |-> "error", stubs |-> <<>>]}
    \cup {[kind |-> "ok", stubs |-> l] : l \in Listings}
Unasked == [kind |-> "unasked", stubs |-> <<>>]

ServerPage(p) == IF p \in FreePages THEN p ELSE 2

\* The site answers a listing URL the same way every time it is asked.
Answered(m, p, ans) ==
    /\ ans \in Answers
    /\ server[m][ServerPage(p)] \in {Unasked, ans}
    /\ server' = [server EXCEPT ![m][ServerPage(p)] = ans]

\* _filter_by_date: the stubs whose URL date is the target month and within
\* the configured range (every article URL of the extractor carries a date).
KeepStub(u, m) == UrlMonth(u) = m /\ UrlInRange(u)

\* A plausible slip: the walk returns every stub it collected.
NoFilter(stubs, m) == stubs

FilterByDate(stubs, m) == SelectSeq(stubs, LAMBDA u : KeepStub(u, m))

SeqSet(q) == {q[i] : i \in 1..Len(q)}

DiscIdle ==
    /\ dpc = "idle" /\ dmonth = 0 /\ dpage = 0
    /\ all_articles = <<>> /\ found = <<>> /\ total_new = 0
    /\ offered = FALSE

DiscInit ==
    /\ DiscIdle
    /\ server = [m \in Months |-> [p \in FreePages |-> Unasked]]
    /\ monthStubs = [m \in Months |-> {}]
    /\ snap = [u \in Urls |-> NoRow]
    /\ runs = 0

\* WUWTScraper.run, phase 1: discover_all_articles is entered.
DiscoverStart ==
    /\ dpc \in {"idle", "done"}
    /\ runs < MaxRuns
    /\ dpc' = "month"
    /\ dmonth' = 1
    /\ total_new' = 0
    /\ snap' = articles
    /\ offered' = FALSE
    /\ UNCHANGED <<dpage, all_articles, found, server, monthStubs, runs>>
    /\ UNCHANGED <<dbVars, notDisc>>

\* Head of the for loop: add_archive_month, then the month is skipped if it
\* is complete, and walked by scrape_archive_month otherwise.
NextMonth ==
    /\ dpc = "month"
    /\ dmonth <= NMonths
    /\ archive_months' = AddArchiveMonth(archive_months, dmonth)
    /\ IF IsArchiveMonthComplete(archive_months', dmonth)
       THEN /\ dmonth' = dmonth + 1
            /\ UNCHANGED <<dpc, dpage, all_articles>>
       ELSE /\ dpc' = "first"
            /\ all_articles' = <<>>
            /\ dpage' = 1
            /\ UNCHANGED dmonth
    /\ UNCHANGED <<found, total_new, server, monthStubs, snap, runs, offered>>
    /\ UNCHANGED <<articles, notDisc>>

\* scrape_archive_month: the canonical listing URL of the month.
FetchFirstPage ==
    /\ dpc = "first"
    /\ \E ans \in Answers :
         /\ Answered(dmonth, 1, ans)
         /\ IF ans.kind = "ok"
            THEN /\ all_articles' = ans.stubs
                 /\ dpage' = 2
                 /\ dpc' = "page"
                 /\ UNCHANGED found
            ELSE \* None: return []; exception: return all_articles (empty)
                 /\ found' = <<>>
                 /\ dpc' = "add"
                 /\ UNCHANGED <<all_articles, dpage>>
    /\ UNCHANGED <<dmonth, total_new, monthStubs, snap, runs, offered>>
    /\ UNCHANGED <<dbVars, notDisc>>

\* A plausible slip: the except clause falls through to the filter and the
\* mark instead of returning.
FallThrough == "filter"

\* except Exception: ... return all_articles. The walk goes back to
\* discover_all_articles, past the filter and the mark.
AfterError == "add"

\* A plausible slip: the cap is tested one page late.
LateCap(page) == page > PageCap + 1

\* Safety limit: if page > 50: break
TooManyPages(page) == page > PageCap

\* scrape_archive_month: one pass of the while loop over page/N/.
FetchNextPage ==
    /\ dpc = "page"
    /\ \E ans \in Answers :
         /\ Answered(dmonth, dpage, ans)
         /\ CASE ans.kind = "error" ->
                   \* except Exception: return all_articles, unfiltered
                   /\ found' = all_articles
                   /\ dpc' = AfterError
                   /\ UNCHANGED <<all_articles, dpage>>
              [] ans.kind = "notfound" \/ (ans.kind = "ok" /\ ans.stubs = <<>>) ->
                   /\ dpc' = "filter"
                   /\ UNCHANGED <<all_articles, dpage, found>>
              [] OTHER ->
                   /\ all_articles' = all_articles \o ans.stubs
                   /\ dpage' = dpage + 1
                   /\ dpc' = IF TooManyPages(dpage + 1) THEN "filter"
                             ELSE "page"
                   /\ UNCHANGED found
    /\ UNCHANGED <<dmonth, total_new, monthStubs, snap, runs, offered>>
    /\ UNCHANGED <<dbVars, notDisc>>

\* scrape_archive_month after the loop: _filter_by_date, then
\* mark_archive_month_complete, then the filtered list is returned.
MarkComplete ==
    /\ dpc = "filter"
    /\ LET filtered == FilterByDate(all_articles, dmonth) IN
         /\ archive_months' =
              MarkArchiveMonthComplete(archive_months, dmonth, Len(filtered))
         /\ found' = filtered
         /\ monthStubs' = [monthStubs EXCEPT ![dmonth] = SeqSet(filtered)]
    /\ dpc' = "add"
    /\ UNCHANGED <<dmonth, dpage, all_articles, total_new, server, snap, runs,
                   offered>>
    /\ UNCHANGED <<articles, notDisc>>

\* discover_all_articles: add_article_stubs(articles), total_new += new_count.
AddStubs ==
    /\ dpc = "add"
    /\ LET r == AddArticleStubs(articles, found) IN
         /\ articles' = r.tbl
         /\ total_new' = total_new + r.added
    /\ offered' = (offered \/ found # <<>>)
    /\ dmonth' = dmonth + 1
    /\ dpc' = "month"
    /\ all_articles' = <<>>
    /\ found' = <<>>
    /\ dpage' = 0
    /\ UNCHANGED <<server, monthStubs, snap, runs>>
    /\ UNCHANGED <<archive_months, notDisc>>

\* discover_all_articles returns total_new.
DiscoverEnd ==
    /\ dpc = "month"
    /\ dmonth > NMonths
    /\ dpc' = "done"
    /\ runs' = runs + 1
    /\ UNCHANGED <<dmonth, dpage, all_articles, found, total_new, server,
                   monthStubs, snap, offered>>
    /\ UNCHANGED <<dbVars, notDisc>>

\* The program ends after a discovery run and is started again later: what
\* is in memory is gone, the tables and the site stay as they are.
ProcessExit ==
    /\ dpc = "done"
    /\ dpc' = "idle"
    /\ dmonth' = 0 /\ total_new' = 0 /\ offered' = FALSE
    /\ runs' = 0
    /\ snap' = [u \in Urls |-> NoRow]
    /\ UNCHANGED <<dpage, all_articles, found, server, monthStubs>>
    /\ UNCHANGED <<dbVars, notDisc>>

\* The process dies between two statements (kill, power loss): what is in
\* memory is gone, the committed tables stay.
DiscoverCrash ==
    /\ dpc \in {"month", "first", "page", "filter", "add"}
    /\ dpc' = "idle"
    /\ dmonth' = 0 /\ dpage' = 0
    /\ all_articles' = <<>> /\ found' = <<>> /\ total_new' = 0
    /\ offered' = FALSE
    /\ UNCHANGED <<server, monthStubs, snap, runs>>
    /\ UNCHANGED <<dbVars, notDisc>>

\* C2: a discovery run that follows a discovery run over the same months,
\* against a site that answers every listing URL as before, returns 0 new
\* articles and leaves the articles table as it found it.
C2_SecondRunAddsNothing ==
    (dpc = "done" /\ runs >= 2) => (total_new = 0 /\ articles = snap)

\* A second run has ended that walked a month again, handed its stubs to
\* add_article_stubs and skipped a complete month; the table is not empty.
C2_Witness ==
    /\ dpc = "done" /\ runs >= 2
    /\ offered
    /\ total_new = 0
    /\ RowCount(articles) > 0
    /\ \E m \in Months : IsArchiveMonthComplete(archive_months, m)

\* C3: whenever no discovery is under way (before a run, or after a crash
\* between two store operations), a month with status complete has every
\* stub of its filtered list in the articles table.
C3_CompleteMonthHasStubs ==
    dpc = "idle" =>
        \A m \in Months :
            IsArchiveMonthComplete(archive_months, m) =>
                \A u \in monthStubs[m] : articles[u].status # "absent"

\* How the site answered page p of month m.
PageAnswer(m, p) == server[m][ServerPage(p)]

\* C19: a month is marked complete only after its page walk has reached a
\* terminal condition (a page not found, a page without stubs, or the cap
\* of 50 pages) and no page of the walk failed; a walk that a fetch error
\* or an exception cut short leaves the month as it was.
C19_CompleteOnlyAfterTerminalPage ==
    /\ [][\A m \in Months :
            (~IsArchiveMonthComplete(archive_months, m)
               /\ IsArchiveMonthComplete(archive_months', m))
            => /\ m = dmonth /\ dpage >= 2
               /\ \/ dpage > PageCap
                  \/ PageAnswer(m, dpage).kind = "notfound"
                  \/ PageAnswer(m, dpage) = [kind |-> "ok", stubs |-> <<>>]
               /\ \A p \in 1..Min(dpage, PageCap) :
                     PageAnswer(m, p).kind # "error"]_vars
    /\ [][(dpc \in {"first", "page"} /\ dpc' = "add")
          => (/\ PageAnswer(dmonth, dpage)'.kind \in {"error", "notfound"}
              /\ archive_months' = archive_months
              /\ ~IsArchiveMonthComplete(archive_months, dmonth))]_vars

\* A run has ended with one month complete and another month, whose walk
\* failed on its second page, still pending.
C19_Witness ==
    /\ dpc = "done"
    /\ \E m \in Months : IsArchiveMonthComplete(archive_months, m)
    /\ \E m \in Months : /\ archive_months[m].status = "pending"
                          /\ PageAnswer(m, 1).kind = "ok"
                          /\ PageAnswer(m, 2).kind = "error"

\* C20: every stub that discovery of a month persists has a URL date whose
\* year and month are those of the month and which lies within
\* [start_date, end_date] (every article URL carries a date), on every path
\* of the walk, also when the walk ends with a fetch error.
C20_PersistedStubsAreFiltered ==
    [][\A u \in Urls :
         (articles[u].status = "absent" /\ articles'[u].status # "absent")
         => KeepStub(u, dmonth)]_vars

\* The stubs of the list q whose URL date passes the filter for month m.
Passing(q, m) == {i \in 1..Len(q) : KeepStub(q[i], m)}

\* C22: when the walk of a month has ended by a terminal condition, the
\* month is marked complete with article_count equal to the number of
\* collected stubs that pass the date filter, the list handed to the store
\* is the list of those stubs, and the rows the store inserts for the walk
\* are rows of exactly those stubs: every passing stub has a row afterwards
\* and no other URL gains one.
C22_CompleteCountsFilteredStubs ==
    /\ [][(dpc = "filter" /\ dpc' = "add")
          => /\ IsArchiveMonthComplete(archive_months', dmonth)
             /\ archive_months'[dmonth].article_count
                  = Cardinality(Passing(all_articles, dmonth))
             /\ Len(found') = Cardinality(Passing(all_articles, dmonth))
             /\ SeqSet(found')
                  = {all_articles[i] : i \in Passing(all_articles, dmonth)}]_vars
    /\ [][(dpc = "add" /\ dpc' = "month"
             /\ IsArchiveMonthComplete(archive_months, dmonth))
          => \A u \in Urls :
               /\ (u \in SeqSet(all_articles) /\ KeepStub(u, dmonth))
                     => articles'[u].status # "absent"
               /\ (articles[u].status = "absent"
                     /\ articles'[u].status # "absent")
                     => (u \in SeqSet(all_articles) /\ KeepStub(u, dmonth))]_vars

\* C22 witness: a month is complete with a positive article_count, its
\* listing linked an article that passes the filter and one that does not,
\* the first has a row and the second has none.
C22_Witness ==
    /\ dpc = "month"
    /\ \E m \in Months :
         /\ IsArchiveMonthComplete(archive_months, m)
         /\ archive_months[m].article_count >= 1
         /\ \E u, v \in Urls :
              /\ PageAnswer(m, 1).stubs = <<v>> /\ ~KeepStub(v, m)
              /\ PageAnswer(m, 2).stubs = <<u>> /\ KeepStub(u, m)
              /\ monthStubs[m] = {u}
              /\ articles[u].status = "pending"
              /\ articles[v].status = "absent"

\* C23: the walk of a month requests the canonical page and then page/2/,
\* page/3/, ... and never a page beyond page/50/, so at most 50 pages; and
\* a walk that has started always comes to its end (its list goes back to
\* discover_all_articles, or the process dies), also against a listing with
\* a non-empty page for every page number.
C23_WalkEndsWithin50Pages ==
    /\ [](dpc = "first" => dpage = 1)
    /\ [](dpc = "page" => dpage \in 2..PageCap)
    /\ [][dpc = "page" => dpage' \in {dpage, dpage + 1, 0}]_vars
    /\ (dpc = "first") ~> (dpc \in {"add", "idle"})

\* C23 witness: a walk against a listing whose every page links an article
\* has requested page/50/ and stopped.
C23_Witness ==
    /\ dpc = "filter"
    /\ dpage = PageCap + 1
    /\ Len(all_articles) = PageCap
    /\ PageAnswer(dmonth, PageCap).stubs # <<>>

NoListingError ==
    \A m \in Months : \A p \in FreePages : server[m][p].kind # "error"

\* C24: when discovery is run again and again and no listing request ever
\* fails with an error (every answer is a page or not-found), every month of
\* the range is complete after finitely many runs, a month whose canonical
\* listing page is not found included.
C24_EveryMonthCompletes ==
    ([]NoListingError)
        => <>(\A m \in Months : IsArchiveMonthComplete(archive_months, m))

(***************************************************************************)
(*                          SCRAPE PHASE                                   *)
(***************************************************************************)

\* --limit of a run; 0 = all.
MaxLimit == 1
\* get_failed_articles(max_retries = 3), retry_failed_articles(max_retries = 3)
MaxRetries == 3
\* batch_size = min(100, limit - articles_scraped) if limit else 100
BatchSize == 100

\* A plausible slip: update_article leaves the error message in place.
UpdateKeepsError(tbl, u) ==
    IF tbl[u].status = "absent" THEN tbl
    ELSE [tbl EXCEPT ![u].status = "scraped"]

\* update_article: status = 'scraped', error_message = NULL
UpdateArticle(tbl, u) ==
    IF tbl[u].status = "absent" THEN tbl
    ELSE [tbl EXCEPT ![u].status = "scraped", ![u].error = FALSE]

\* A plausible slip: the failure is stored without counting the attempt.
MarkFailedUncounted(tbl, u) ==
    IF tbl[u].status = "absent" THEN tbl
    ELSE [tbl EXCEPT ![u].status = "failed", ![u].error = TRUE]

\* A plausible slip: the failure is counted but the row stays as it was.
MarkFailedKeepsStatus(tbl, u) ==
    IF tbl[u].status = "absent" THEN tbl
    ELSE [tbl EXCEPT ![u].error = TRUE,
                     ![u].retry_count = Min(tbl[u].retry_count + 1,
                                            MaxRetries)]

\* mark_article_failed: status = 'failed', error_message = ?, retry_count + 1
MarkArticleFailed(tbl, u) ==
    IF tbl[u].status = "absent" THEN tbl
    ELSE [tbl EXCEPT ![u].status = "failed", ![u].error = TRUE,
                     ![u].retry_count = tbl[u].retry_count + 1]

\* A plausible slip: the not-found outcome is not stored.
MarkNothing(tbl, u) == tbl

\* mark_article_unavailable: status = 'unavailable'
MarkArticleUnavailable(tbl, u) ==
    IF tbl[u].status = "absent" THEN tbl
    ELSE [tbl EXCEPT ![u].status = "unavailable"]

\* is_article_scraped
IsArticleScraped(tbl, u) == tbl[u].status = "scraped"

\* The first n elements of a list (LIMIT n).
Take(q, n) == SubSeq(q, 1, Min(n, Len(q)))

\* The pending URLs by discovered_at ascending, from rank r on.
RECURSIVE PendingFrom(_, _)
PendingFrom(tbl, r) ==
    IF r > NUrls THEN <<>>
    ELSE LET here == {u \in Urls : tbl[u].disc = r /\ tbl[u].status = "pending"} IN
         (IF here = {} THEN <<>> ELSE <<CHOOSE u \in here : TRUE>>)
         \o PendingFrom(tbl, r + 1)

\* get_pending_articles(limit): WHERE status = 'pending'
\* ORDER BY discovered_at ASC LIMIT ?
GetPendingArticles(tbl, n) == Take(PendingFrom(tbl, 1), n)

\* The rows get_failed_articles selects.
FailedRows(tbl, max) ==
    {u \in Urls : tbl[u].status = "failed" /\ tbl[u].retry_count < max}

\* get_failed_articles(max_retries) may return q: the selected rows, each
\* once, ORDER BY retry_count ASC (rows of equal retry_count in any order).
IsFailedArticles(q, tbl, max) ==
    /\ SeqSet(q) = FailedRows(tbl, max)
    /\ Len(q) = Cardinality(FailedRows(tbl, max))
    /\ \A i, j \in 1..Len(q) :
         i < j => tbl[q[i]].retry_count <= tbl[q[j]].retry_count

\* Lists of distinct URLs.
UrlLists ==
    {q \in UNION {[1..n -> Urls] : n \in 0..NUrls} :
        \A i, j \in 1..Len(q) : q[i] = q[j] => i = j}

\* What the discovery phase of a run may hand to add_article_stubs: the URLs
\* are numbered in the order in which the site comes to list them, and a
\* run finds the known ones again and some of the next ones.
StubLists == {[i \in 1..n |-> i] : n \in 0..NUrls}

\* What one fetch of an article URL by get_with_retry comes to: a page with
\* a body, a page with an empty body, not found, or a raised failure.
FetchOutcomes(u) ==
    IF u \in permFail THEN {"error"}
    ELSE {"page", "empty", "notfound", "error"}

NoFetch == [status |-> "none", via |-> "none"]

\* No row in scrape_sessions yet.
NoSession == [status |-> "none", articles_scraped |-> 0,
              comments_scraped |-> 0, ended |-> 0]

\* start_session: INSERT INTO scrape_sessions (started_at, status)
\* VALUES (?, 'running'); the counts default to 0.
NewSession == [status |-> "running", articles_scraped |-> 0,
               comments_scraped |-> 0, ended |-> 0]

\* end_session: UPDATE scrape_sessions SET ended_at, articles_scraped,
\* comments_scraped, status = 'completed' WHERE session_id = ?; ended counts
\* the calls for this session.
CloseSession(row, a, c) ==
    [status |-> "completed", articles_scraped |-> a, comments_scraped |-> c,
     ended |-> row.ended + 1]

\* articles_scraped = 0, comments_scraped = 0 of run.
NoCounts == [articles |-> 0, comments |-> 0]

\* len(comments) for the page of an article, as the server of the model
\* has it: two comments under the odd articles, none under the even ones.
CommentCount(u) == IF u % 2 = 1 THEN 2 ELSE 0

ScrapeIdle ==
    /\ spc = "idle" /\ mode = "none" /\ pending = <<>>
    /\ html_content = "none" /\ articles_scraped = 0 /\ limit = 0
    /\ owed = {} /\ lastOutcome = "none"
    /\ session = NoSession /\ comments_scraped = 0
    /\ run_scraped = NoCounts /\ exit_path = "none"

ScrapeInit ==
    /\ ScrapeIdle
    /\ permFail \in SUBSET Urls
    /\ fetchLog = NoFetch

\* The articles of the crawl that are failed and still retriable.
Retriable(tbl) == permFail \cap FailedRows(tbl, MaxRetries)

\* Where no run and no retry pass is under way: before the first run, after
\* a kill (idle), after a run whose scrape phase ran to its end (done),
\* after a run that returned earlier (returned) or raised (raised).
Quiescent == {"idle", "done", "returned", "raised"}

\* WUWTScraper.run, first statement: self.session_id = start_session().
StartSession ==
    /\ spc \in Quiescent
    /\ session' = NewSession
    /\ spc' = "opened"
    /\ mode' = "run"
    /\ pending' = <<>>
    /\ html_content' = "none"
    /\ articles_scraped' = 0
    /\ comments_scraped' = 0
    /\ run_scraped' = NoCounts
    /\ exit_path' = "none"
    /\ limit' = 0
    /\ owed' = {}
    /\ lastOutcome' = "none"
    /\ fetchLog' = NoFetch /\ UNCHANGED permFail
    /\ UNCHANGED <<articles, notScrape>>

\* WUWTScraper.run up to the scrape phase: phase 1 has added the stubs it
\* discovered (none with --scrape-only); with --discover-only run returns
\* here, otherwise _scrape_articles is entered.
RunStart ==
    /\ spc = "opened"
    /\ \E stubs \in StubLists, l \in 0..MaxLimit, discover_only \in BOOLEAN :
         /\ Len(stubs) >= RowCount(articles)
         /\ articles' = AddArticleStubs(articles, stubs).tbl
         /\ IF discover_only
            THEN /\ spc' = "finally"
                 /\ exit_path' = "discover_only"
                 /\ owed' = {}
                 /\ limit' = 0      \* the limit is never read
            ELSE /\ spc' = "pull"
                 /\ owed' = Retriable(articles')
                 /\ limit' = l
                 /\ UNCHANGED exit_path
    /\ mode' = "run"
    /\ pending' = <<>>
    /\ html_content' = "none"
    /\ articles_scraped' = 0
    /\ comments_scraped' = 0
    /\ lastOutcome' = "none"
    /\ UNCHANGED <<permFail, session, run_scraped>>
    /\ fetchLog' = NoFetch
    /\ UNCHANGED notScrape

\* _scrape_articles returns its counts; run keeps them and goes on to its
\* finally clause.
Return(scraped, commented) ==
    /\ spc' = "finally"
    /\ run_scraped' = [articles |-> scraped, comments |-> commented]
    /\ exit_path' = "completed"

\* _scrape_articles, head of the while loop: the next batch of pending URLs.
PullBatch ==
    /\ spc = "pull"
    /\ LET batch_size == IF limit # 0
                         THEN Min(BatchSize, limit - articles_scraped)
                         ELSE BatchSize
           batch == GetPendingArticles(articles, batch_size)
       IN /\ pending' = batch
          /\ IF batch = <<>>
             THEN Return(articles_scraped, comments_scraped)
             ELSE spc' = "item" /\ UNCHANGED <<run_scraped, exit_path>>
    /\ lastOutcome' = "none"
    /\ UNCHANGED <<mode, html_content, articles_scraped, limit, permFail,
                   owed, session, comments_scraped>>
    /\ fetchLog' = NoFetch
    /\ UNCHANGED <<articles, notScrape>>

\* retry_failed_articles: failed = get_failed_articles(max_retries).
RetryStart ==
    /\ spc \in Quiescent
    /\ \E q \in UrlLists :
         /\ IsFailedArticles(q, articles, MaxRetries)
         /\ pending' = q
         /\ spc' = IF q = <<>> THEN "done" ELSE "item"
    /\ mode' = "retry"
    /\ html_content' = "none"
    /\ articles_scraped' = 0
    /\ comments_scraped' = 0
    /\ run_scraped' = NoCounts
    /\ exit_path' = "none"
    /\ limit' = 0
    /\ owed' = {}
    /\ lastOutcome' = "none"
    /\ UNCHANGED <<permFail, session>>
    /\ fetchLog' = NoFetch
    /\ UNCHANGED <<articles, notScrape>>

\* A plausible slip: the loop stops only when the count has passed the limit.
LimitPassed(l, scraped) == l # 0 /\ scraped > l

\* if limit and articles_scraped >= limit: break
LimitReached(l, scraped) == l # 0 /\ scraped >= l

\* The for loop moves on: the limit checks of _scrape_articles after an
\* article, the next URL of the list, or the end of the list.
Advance(scraped, commented) ==
    /\ articles_scraped' = scraped
    /\ comments_scraped' = commented
    /\ pending' = Tail(pending)
    /\ html_content' = "none"
    /\ IF mode = "run" /\ LimitReached(limit, scraped)
       THEN Return(scraped, commented)
       ELSE /\ spc' = IF Tail(pending) # <<>> THEN "item"
                      ELSE IF mode = "run" THEN "pull"
                      ELSE "done"
            /\ UNCHANGED <<run_scraped, exit_path>>

\* The loop stays at its article.
Stay == UNCHANGED <<pending, articles_scraped, comments_scraped, run_scraped,
                    exit_path>>

\* scrape_article(url) for the head of the list: the check of
\* is_article_scraped, the fetch, and the store update of its outcome.
ScrapeArticle ==
    /\ spc = "item"
    /\ LET url == Head(pending) IN
       IF IsArticleScraped(articles, url)
       THEN /\ Advance(articles_scraped, comments_scraped)
            /\ lastOutcome' = "skipped"
            /\ fetchLog' = NoFetch
            /\ UNCHANGED <<articles, owed>>
       ELSE /\ fetchLog' = [status |-> articles[url].status,
                            via |-> "scrape_article"]
            /\ owed' = owed \ {url}
            /\ \E out \in FetchOutcomes(url), parsed \in BOOLEAN :
                 CASE out = "notfound" ->
                        /\ articles' = MarkArticleUnavailable(articles, url)
                        /\ lastOutcome' = "notfound"
                        /\ Advance(articles_scraped, comments_scraped)
                   [] out = "error" \/ ~parsed ->
                        \* get_with_retry or parse_article raised
                        /\ articles' = MarkArticleFailed(articles, url)
                        /\ lastOutcome' = IF out = "error" THEN "fetch_error"
                                          ELSE "extraction_error"
                        /\ Advance(articles_scraped, comments_scraped)
                   [] OTHER ->
                        /\ articles' = UpdateArticle(articles, url)
                        /\ lastOutcome' = "scraped"
                        /\ IF mode = "run"
                           THEN /\ html_content' = out
                                /\ spc' = "comments"
                                /\ Stay
                           ELSE Advance(articles_scraped + 1, comments_scraped)
    /\ UNCHANGED <<mode, limit, permFail, session>>
    /\ UNCHANGED notScrape

\* scrape_comments(article, html_content = article.content_html): without
\* content it fetches article.url itself; a failure of that fetch gives an
\* empty list, an error in merging or saving the comments propagates to
\* the except clause of _scrape_articles.
ScrapeComments ==
    /\ spc = "comments"
    /\ LET url == Head(pending) IN
         /\ IF html_content = "empty"
            THEN /\ fetchLog' = [status |-> articles[url].status,
                                 via |-> "scrape_comments"]
                 /\ owed' = owed \ {url}
            ELSE fetchLog' = NoFetch /\ UNCHANGED owed
         /\ \E raised \in BOOLEAN :
              IF raised
              THEN /\ articles' = MarkArticleFailed(articles, url)
                   /\ lastOutcome' = "comments_error"
                   /\ Advance(articles_scraped, comments_scraped)
              ELSE /\ spc' = "write"
                   /\ lastOutcome' = "comments_ok"
                   /\ Stay
                   /\ UNCHANGED <<articles, html_content>>
    /\ UNCHANGED <<mode, limit, permFail, session>>
    /\ UNCHANGED notScrape

\* download_comment_images and write_article, then articles_scraped += 1
\* and comments_scraped += len(comments); an error goes to the except
\* clause: mark_article_failed(url).
WriteArticle ==
    /\ spc = "write"
    /\ \E raised \in BOOLEAN :
         IF raised
         THEN /\ articles' = MarkArticleFailed(articles, Head(pending))
              /\ lastOutcome' = "writer_error"
              /\ Advance(articles_scraped, comments_scraped)
         ELSE /\ Advance(articles_scraped + 1,
                         comments_scraped + CommentCount(Head(pending)))
              /\ lastOutcome' = "written"
              /\ UNCHANGED articles
    /\ UNCHANGED <<mode, limit, permFail, owed, session>>
    /\ fetchLog' = NoFetch
    /\ UNCHANGED notScrape

\* run leaves the statement it was executing: for its finally clause (what
\* _scrape_articles had counted is kept as history until the session is
\* closed) or for its caller.
Unwind(pc, path) ==
    /\ spc' = pc
    /\ exit_path' = path
    /\ pending' = <<>>
    /\ html_content' = "none"
    /\ lastOutcome' = "none"
    /\ owed' = {}
    /\ limit' = 0
    /\ IF pc = "finally"
       THEN UNCHANGED <<articles_scraped, comments_scraped, run_scraped>>
       ELSE /\ articles_scraped' = 0
            /\ comments_scraped' = 0
            /\ run_scraped' = NoCounts
    /\ UNCHANGED <<mode, permFail, session>>
    /\ fetchLog' = NoFetch
    /\ UNCHANGED <<articles, notScrape>>

\* KeyboardInterrupt while run is executing. After start_session and before
\* the try statement it leaves run at once; inside the try statement the
\* except clause of run catches it and the finally clause follows; inside
\* the finally clause, before end_session has run, it leaves run.
Interrupt ==
    /\ mode = "run"
    /\ \/ spc = "opened" /\ Unwind("raised", "interrupt")
       \/ /\ spc \in {"opened", "pull", "item", "comments", "write"}
          /\ Unwind("finally", "interrupt")
       \/ spc = "finally" /\ Unwind("raised", "interrupt")

\* An exception that no clause of a phase handles (the store fails in
\* phase 1, in get_pending_articles, or in mark_article_failed inside the
\* except clause of the loop): the except clause of run logs it.
RunError ==
    /\ mode = "run"
    /\ spc \in {"opened", "pull", "item", "comments", "write"}
    /\ Unwind("finally", "error")

\* finally: end_session(session_id, articles_scraped, comments_scraped),
\* then run returns.
EndSession ==
    /\ spc = "finally"
    /\ session' = CloseSession(session, run_scraped.articles,
                               run_scraped.comments)
    /\ spc' = IF exit_path = "completed" THEN "done" ELSE "returned"
    /\ articles_scraped' = 0
    /\ comments_scraped' = 0
    /\ run_scraped' = NoCounts
    /\ lastOutcome' = "none"
    /\ exit_path' = "none"
    /\ UNCHANGED <<mode, pending, html_content, limit, permFail,
                   owed>>
    /\ fetchLog' = NoFetch
    /\ UNCHANGED <<articles, notScrape>>

\* The process dies between two statements; the committed rows stay.
ScrapeCrash ==
    /\ spc \in {"opened", "pull", "item", "comments", "write", "finally"}
    /\ spc' = "idle"
    /\ mode' = "none"
    /\ pending' = <<>>
    /\ html_content' = "none"
    /\ articles_scraped' = 0
    /\ comments_scraped' = 0
    /\ run_scraped' = NoCounts
    /\ exit_path' = "none"
    /\ limit' = 0
    /\ owed' = {}
    /\ lastOutcome' = "none"
    /\ UNCHANGED <<permFail, session>>
    /\ fetchLog' = NoFetch
    /\ UNCHANGED <<articles, notScrape>>

\* C1: no fetch of an article URL is ever issued while the stored status
\* of that article is scraped.
C1_NoFetchOfScraped == fetchLog.status # "scraped"

\* C11: a pending article whose fetch returns 404 becomes unavailable, and
\* unavailable is terminal: an unavailable article is never fetched and its
\* row never changes, in the scrape phase or in a retry of failed articles.
C11_UnavailableIsTerminal ==
    /\ [][(spc = "item" /\ lastOutcome' = "notfound"
             /\ articles[Head(pending)].status = "pending")
            => articles'[Head(pending)].status = "unavailable"]_vars
    /\ [](fetchLog.status # "unavailable")
    /\ [][\A u \in Urls : articles[u].status = "unavailable"
                             => articles'[u] = articles[u]]_vars

\* After a 404 made an article unavailable, a later pass over the failed
\* articles has fetched another article and has come to its end.
C11_Witness ==
    /\ \E u \in Urls : articles[u].status = "unavailable"
    /\ spc = "done" /\ mode = "retry"
    /\ lastOutcome \in {"scraped", "fetch_error"}

\* C10: an article whose every fetch fails with a non-404 error is fetched
\* again by the crawl while it is failed with retry_count < max_retries: a
\* run without a limit that has come to its end has fetched every such
\* article it started with.
C10_FailedRetriedByCrawl ==
    (spc = "done" /\ mode = "run" /\ limit = 0) => owed = {}

\* C12: every call of run opens one session with status running and calls
\* end_session for it exactly once before run returns or propagates, on all
\* paths (normal completion, the discover-only return, an exception in a
\* phase, a KeyboardInterrupt at any point after the session was opened);
\* afterwards the status of the session is completed.
C12_SessionClosedOnce ==
    /\ (mode = "run" /\ spc \notin Quiescent /\ spc # "finally")
          => session = NewSession
    /\ (mode = "run" /\ spc \in {"done", "returned", "raised"})
          => (session.status = "completed" /\ session.ended = 1)

\* C13: when a run ends through an unhandled error or an interruption in
\* the scrape phase, after k articles and m comments were processed in that
\* run, the closed session stores articles_scraped = k and
\* comments_scraped = m.
C13_PartialCountsStored ==
    [][(spc = "finally" /\ exit_path \in {"interrupt", "error"}
          /\ session'.status = "completed")
        => (/\ session'.articles_scraped = articles_scraped
            /\ session'.comments_scraped = comments_scraped)]_vars

\* The ways in which processing one article fails with a non-404 error.
ErrorOutcomes ==
    {"fetch_error", "extraction_error", "comments_error", "writer_error"}

\* C14: when processing one article of a scrape batch fails with a non-404
\* error (fetch, extraction, comment acquisition or writer), the article is
\* recorded as failed with retry_count incremented by exactly 1 and the
\* error stored, and the loop goes on with the next article of the batch
\* (with the next batch after the last one): the run is not aborted.
C14_FailureIsRecordedAndSkipped ==
    [][(lastOutcome' \in ErrorOutcomes /\ spc \in {"item", "comments", "write"})
        => LET url == Head(pending) IN
           /\ articles'[url].status = "failed"
           /\ articles'[url].retry_count = articles[url].retry_count + 1
           /\ articles'[url].error
           /\ \A u \in Urls \ {url} : articles'[u] = articles[u]
           /\ pending' = Tail(pending)
           /\ mode' = mode /\ session' = session
           /\ articles_scraped' = articles_scraped
           /\ mode = "run" =>
                spc' = IF pending' # <<>> THEN "item" ELSE "pull"]_vars

\* A run stands at an article of a batch after the writer failed on the
\* article before it.
C14_Witness ==
    /\ mode = "run" /\ spc = "item" /\ pending # <<>>
    /\ lastOutcome = "writer_error"
    /\ articles_scraped = 0
    /\ \E u \in Urls : articles[u].status = "failed" /\ articles[u].retry_count = 1

\* C15: with a limit L > 0 the scrape phase never counts more than L scraped
\* articles, pulls and processes no article once the count has reached L,
\* and the run then goes to close its session, which stores those counts.
C15_LimitStopsRun ==
    /\ []((mode = "run" /\ limit > 0) => articles_scraped <= limit)
    /\ []((mode = "run" /\ limit > 0
             /\ spc \in {"pull", "item", "comments", "write"})
           => articles_scraped < limit)
    /\ [][(mode = "run" /\ limit > 0 /\ articles_scraped < limit
             /\ articles_scraped' = limit)
          => (/\ spc' = "finally" /\ exit_path' = "completed"
              /\ run_scraped' = [articles |-> articles_scraped',
                                 comments |-> comments_scraped'])]_vars
    /\ [][(spc = "finally" /\ exit_path = "completed" /\ spc' = "done")
          => (/\ session' = CloseSession(session, articles_scraped,
                                         comments_scraped)
              /\ limit > 0 => session'.articles_scraped <= limit)]_vars

\* A run with limit 1 has closed its session with one article counted and
\* has left a pending article unprocessed.
C15_Witness ==
    /\ mode = "run" /\ spc = "done" /\ limit = 1
    /\ session.status = "completed" /\ session.articles_scraped = 1
    /\ session.comments_scraped = 2
    /\ \E u \in Urls : articles[u].status = "pending"

\* The list q is in the order of discovery, first discovered first.
ByDiscovery(q, tbl) ==
    \A i, j \in 1..Len(q) : i < j => tbl[q[i]].disc <= tbl[q[j]].disc

\* C18: get_pending_articles(limit) and get_failed_articles(max_retries)
\* return their items ordered by discovery time ascending, for every
\* content of the store: the batch a run pulls and the list a retry pass
\* walks are in the order of discovery.
C18_ReadsInDiscoveryOrder ==
    /\ [][(spc = "pull" /\ spc' = "item") => ByDiscovery(pending', articles)]_vars
    /\ [][(spc \in Quiescent /\ mode' = "retry")
          => ByDiscovery(pending', articles)]_vars

\* C25: a row with status scraped has no error message; a row becomes
\* scraped only in the step of scrape_article that fetched its URL with
\* success and called update_article; and a stored error message is
\* removed only by that step: mark_article_failed and
\* mark_article_unavailable leave a message in the row.
C25_ScrapedOnlyByUpdate ==
    /\ [](\A u \in Urls : articles[u].status = "scraped" => ~articles[u].error)
    /\ [][\A u \in Urls :
            (articles[u].status # "scraped" /\ articles'[u].status = "scraped")
            => /\ spc = "item" /\ u = Head(pending)
               /\ fetchLog'.via = "scrape_article"
               /\ lastOutcome' = "scraped"
               /\ articles' = UpdateArticle(articles, u)]_vars
    /\ [][\A u \in Urls :
            (articles[u].error /\ ~articles'[u].error)
            => articles'[u].status = "scraped"]_vars

\* C25 witness: an article that had failed has just been fetched with
\* success and is scraped with its message removed, while an article that
\* failed and was then not found is unavailable and keeps its message.
C25_Witness ==
    /\ lastOutcome = "scraped"
    /\ \E u, v \in Urls :
         /\ articles[u].status = "scraped" /\ articles[u].retry_count >= 1
         /\ ~articles[u].error
         /\ articles[v].status = "unavailable" /\ articles[v].error

\* The scrape phase of a run is under way.
InScrapePhase == mode = "run" /\ spc \in {"pull", "item", "comments", "write"}
\* The rows get_pending_articles selects from.
PendingRows(tbl) == {u \in Urls : tbl[u].status = "pending"}
\* The loop has finished with the article at the head of its list.
ArticleProcessed ==
    /\ mode = "run" /\ spc \in {"item", "comments", "write"}
    /\ pending # <<>> /\ pending' = Tail(pending)
    /\ lastOutcome' # "none"

\* C36: the scrape phase ends: every article the loop has finished with is
\* scraped, failed or unavailable, no step of the phase makes a row
\* pending, the phase returns only with no row pending or the limit
\* reached, and a phase under way comes to its end.
C36_ScrapePhaseTerminates ==
    /\ [][ArticleProcessed
          => articles'[Head(pending)].status
                \in {"scraped", "failed", "unavailable"}]_vars
    /\ [][InScrapePhase
          => PendingRows(articles') \subseteq PendingRows(articles)]_vars
    /\ [][(InScrapePhase /\ exit_path' = "completed")
          => (PendingRows(articles') = {}
              \/ LimitReached(limit, articles_scraped'))]_vars
    /\ InScrapePhase ~> ~InScrapePhase

\* C36 witness: a run without limit has pulled a second batch after its
\* first one held an article that failed and one that was scraped, and
\* found nothing pending.
C36_Witness ==
    /\ mode = "run" /\ spc = "finally" /\ exit_path = "completed"
    /\ limit = 0
    /\ PendingRows(articles) = {}
    /\ \E u, v \in Urls :
         articles[u].status = "failed" /\ articles[v].status = "scraped"
    /\ run_scraped.articles >= 1

\* C37: a scraped article stays scraped: no step of the run that scraped it
\* and no later run changes its status or its retry_count.
C37_ScrapedStaysScraped ==
    [][\A u \in Urls :
          articles[u].status = "scraped"
          => /\ articles'[u].status = "scraped"
             /\ articles'[u].retry_count = articles[u].retry_count]_vars

(***************************************************************************)
(*                    CALLS OF THE STORE METHODS                           *)
(* Each action is one call of a method of ScraperDatabase, that is one     *)
(* connection of _get_connection: the statements, then commit, or          *)
(* rollback when a statement raised.                                       *)
(***************************************************************************)

\* The URLs and the month the calls are made with.
StoreUrls == {1, 2}
StoreMonths == {1}
\* retry_count up to which the model calls mark_article_failed.
StoreRetryCap == 1
\* The lists of at most two elements of S.
UpTo2(S) == {<<>>} \cup {<<a>> : a \in S} \cup {<<a, b>> : a \in S, b \in S}
StubBatches == UpTo2(StoreUrls)
CommentBatches == UpTo2([id : CommentKeys, text : CommentTexts])
\* The comments of one call belong to one article: comment.article_id is
\* the URL of the article being scraped.
OfArticle(cs, a) ==
    [i \in 1..Len(cs) |->
        [id |-> cs[i].id, text |-> cs[i].text, article |-> a]]

\* add_article_stub(stub): True iff the row was inserted.
CallAddArticleStub ==
    /\ \E u \in StoreUrls :
         LET r == InsertOrIgnore(articles, u) IN
         /\ articles' = r.tbl
         /\ op' = Returns("add_article_stub", u, IF r.added > 0 THEN 1 ELSE 0)
    /\ UNCHANGED <<archive_months, comment_rows, notStore>>

\* add_article_stubs(stubs); with k > 0 the k-th execute raises an error
\* other than IntegrityError.
CallAddArticleStubs ==
    /\ \E stubs \in StubBatches, k \in 0..2 :
         /\ k <= Len(stubs)
         /\ IF k = 0
            THEN LET r == AddArticleStubs(articles, stubs) IN
                 /\ articles' = r.tbl
                 /\ op' = Returns("add_article_stubs", NoKey, r.added)
            ELSE LET work == AddArticleStubs(articles,
                                             SubSeq(stubs, 1, k - 1)).tbl IN
                 /\ articles' = Rollback(articles, work)
                 /\ op' = Raises("add_article_stubs", work # articles)
    /\ UNCHANGED <<archive_months, comment_rows, notStore>>

\* update_article(article)
CallUpdateArticle ==
    /\ \E u \in StoreUrls : articles' = UpdateArticle(articles, u)
    /\ op' = Returns("update_article", NoKey, 0)
    /\ UNCHANGED <<archive_months, comment_rows, notStore>>

\* mark_article_failed(url, error)
CallMarkArticleFailed ==
    /\ \E u \in StoreUrls :
         /\ articles[u].retry_count < StoreRetryCap
         /\ articles' = MarkArticleFailed(articles, u)
    /\ op' = Returns("mark_article_failed", NoKey, 0)
    /\ UNCHANGED <<archive_months, comment_rows, notStore>>

\* mark_article_unavailable(url)
CallMarkArticleUnavailable ==
    /\ \E u \in StoreUrls : articles' = MarkArticleUnavailable(articles, u)
    /\ op' = Returns("mark_article_unavailable", NoKey, 0)
    /\ UNCHANGED <<archive_months, comment_rows, notStore>>

\* add_archive_month(year, month)
CallAddArchiveMonth ==
    /\ \E m \in StoreMonths :
         /\ archive_months' = AddArchiveMonth(archive_months, m)
         /\ op' = Returns("add_archive_month", m, 0)
    /\ UNCHANGED <<articles, comment_rows, notStore>>

\* mark_archive_month_complete(year, month, article_count)
CallMarkArchiveMonthComplete ==
    /\ \E m \in StoreMonths :
         archive_months' = MarkArchiveMonthComplete(archive_months, m, 1)
    /\ op' = Returns("mark_archive_month_complete", NoKey, 0)
    /\ UNCHANGED <<articles, comment_rows, notStore>>

\* add_comments(comments); with k > 0 the k-th row raises (its timestamp
\* or images cannot be serialised, or the execute fails).
CallAddComments ==
    /\ \E batch \in CommentBatches, a \in StoreUrls, k \in 0..2 :
         LET cs == OfArticle(batch, a) IN
         /\ k <= Len(cs)
         /\ IF k = 0
            THEN /\ comment_rows' = AddComments(comment_rows, cs)
                 /\ op' = Returns("add_comments", NoKey, 0)
            ELSE LET work == AddComments(comment_rows,
                                         SubSeq(cs, 1, k - 1)) IN
                 /\ comment_rows' = Rollback(comment_rows, work)
                 /\ op' = Raises("add_comments", work # comment_rows)
    /\ UNCHANGED <<articles, archive_months, notStore>>

\* C16: inserting a stub whose URL already has a row, or an archive month
\* that already has a row, is a no-op and not an error: the row keeps its
\* status, retry_count, error and discovery time, the row count does not
\* change, add_article_stub returns False and add_article_stubs does not
\* count it.
C16_InsertOfKnownKeyIsNoOp ==
    /\ [][(op'.name = "add_article_stub"
             /\ articles[op'.key].status # "absent")
          => (articles' = articles /\ op'.returned = 0 /\ ~op'.raised)]_vars
    /\ [][(op'.name = "add_article_stubs" /\ ~op'.raised)
          => (/\ \A u \in Urls : articles[u].status # "absent"
                                     => articles'[u] = articles[u]
              /\ op'.returned = RowCount(articles') - RowCount(articles))]_vars
    /\ [][(op'.name = "add_archive_month"
             /\ archive_months[op'.key].status # "absent")
          => (archive_months' = archive_months /\ ~op'.raised)]_vars

\* add_article_stub has returned False for a failed article that has been
\* retried, while a month is complete.
C16_Witness ==
    /\ op.name = "add_article_stub" /\ op.returned = 0
    /\ articles[op.key].status = "failed" /\ articles[op.key].retry_count = 1
    /\ \E m \in Months : archive_months[m].status = "complete"

\* C17: every store mutation is one transaction: when a multi-row call
\* (add_article_stubs, add_comments) raises at its k-th row, none of its
\* rows 1..k-1 is persisted, the tables are exactly as before the call.
C17_FailedCallChangesNothing ==
    [][op'.raised => (/\ articles' = articles
                      /\ archive_months' = archive_months
                      /\ comment_rows' = comment_rows)]_vars

\* add_comments has raised after its first row had replaced a stored
\* comment, and the stored comment is the old one.
C17_Witness ==
    /\ op.name = "add_comments" /\ op.raised /\ op.dirty
    /\ \E c \in CommentKeys : comment_rows[c].text # NoComment

\* C39: saving the comments of one article never changes or removes a
\* stored comment row of another article, also when a comment id saved
\* is the id of a comment stored for the other article: a row that exists
\* stays a row of its article.
C39_OtherArticlesRowsKept ==
    [][\A c \in CommentKeys :
          comment_rows[c] # NoCommentRow
          => comment_rows'[c].article = comment_rows[c].article]_vars

(***************************************************************************)
(*                          SPECIFICATIONS                                 *)
(***************************************************************************)

TreeNext == ParseComment \/ MergeComments
DiscFrozen == DiscInit /\ DbInit
ScrapeFrozen == ScrapeIdle /\ permFail = {} /\ fetchLog = NoFetch
InitTree ==
    /\ TreeInit /\ RateFrozen /\ DiscFrozen /\ ScrapeFrozen /\ RetryFrozen
    /\ AcqFrozen /\ LoadFrozen /\ ImgFrozen /\ ThrFrozen
SpecTree == InitTree /\ [][TreeNext]_vars

\* The tree builder on wpDiscuz comments.
ParentsNext == ParseWpdComment \/ MergeComments
SpecParents == InitTree /\ [][ParentsNext]_vars

RateNext == Get \/ Post \/ DownloadImage \/ Complete \/ SetDelay \/ Tick
InitRate ==
    /\ RateInit /\ TreeFrozen /\ DiscFrozen /\ ScrapeFrozen /\ RetryFrozen
    /\ AcqFrozen /\ LoadFrozen /\ ImgFrozen /\ ThrFrozen
SpecRate == InitRate /\ [][RateNext]_vars

DiscoverNext ==
    \/ DiscoverStart \/ NextMonth \/ FetchFirstPage \/ FetchNextPage
    \/ MarkComplete \/ AddStubs \/ DiscoverEnd \/ DiscoverCrash
InitDiscover ==
    /\ DiscInit /\ DbInit /\ TreeFrozen /\ RateFrozen /\ ScrapeFrozen
    /\ RetryFrozen /\ AcqFrozen /\ LoadFrozen /\ ImgFrozen /\ ThrFrozen
SpecDiscover == InitDiscover /\ [][DiscoverNext]_vars

\* Discovery run again and again by processes that are never killed: each
\* run goes on to its end and another run follows.
RewalkNext ==
    \/ DiscoverStart \/ NextMonth \/ FetchFirstPage \/ FetchNextPage
    \/ MarkComplete \/ AddStubs \/ DiscoverEnd \/ ProcessExit
SpecRewalk == InitDiscover /\ [][RewalkNext]_vars /\ WF_vars(RewalkNext)

\* Discovery when the interpreter keeps running: a walk that can take its
\* next step takes it, unless the process dies.
SpecWalk ==
    /\ InitDiscover /\ [][DiscoverNext]_vars
    /\ WF_vars(FetchFirstPage) /\ WF_vars(FetchNextPage)
    /\ WF_vars(MarkComplete)

ScrapeNext ==
    \/ StartSession \/ RunStart \/ PullBatch \/ RetryStart \/ ScrapeArticle
    \/ ScrapeComments \/ WriteArticle \/ Interrupt \/ RunError
    \/ EndSession \/ ScrapeCrash
InitScrape ==
    /\ ScrapeInit /\ DbInit /\ DiscInit /\ TreeFrozen /\ RateFrozen
    /\ RetryFrozen /\ AcqFrozen /\ LoadFrozen /\ ImgFrozen /\ ThrFrozen
SpecScrape == InitScrape /\ [][ScrapeNext]_vars

\* The store methods called in any order, on a fresh database.
StoreNext ==
    \/ CallAddArticleStub \/ CallAddArticleStubs \/ CallUpdateArticle
    \/ CallMarkArticleFailed \/ CallMarkArticleUnavailable
    \/ CallAddArchiveMonth \/ CallMarkArchiveMonthComplete
    \/ CallAddComments
InitStore ==
    /\ DbInit /\ DiscInit /\ ScrapeFrozen /\ TreeFrozen /\ RateFrozen
    /\ RetryFrozen /\ AcqFrozen /\ LoadFrozen /\ ImgFrozen /\ ThrFrozen
SpecStore == InitStore /\ [][StoreNext]_vars

\* The same program when no URL is bound to fail on every fetch: each fetch
\* may end in any way, so its behaviours include those of SpecScrape.
InitRun ==
    /\ ScrapeFrozen /\ DbInit /\ DiscInit /\ TreeFrozen /\ RateFrozen
    /\ RetryFrozen /\ AcqFrozen /\ LoadFrozen /\ ImgFrozen /\ ThrFrozen
SpecRun == InitRun /\ [][ScrapeNext]_vars

\* Runs of the scraper one after the other (no retry pass, no kill) when
\* every statement of a run that is under way is executed in the end: the scrape loop is sequential code whose calls
\* return or raise (requests carry a timeout, the retries are bounded).
PhaseNext ==
    \/ StartSession \/ RunStart \/ PullBatch \/ ScrapeArticle
    \/ ScrapeComments \/ WriteArticle \/ Interrupt \/ RunError
    \/ EndSession
SpecPhase ==
    /\ InitRun /\ [][PhaseNext]_vars
    /\ WF_vars(PullBatch) /\ WF_vars(ScrapeArticle)
    /\ WF_vars(ScrapeComments) /\ WF_vars(WriteArticle)

\* The calls of get_with_retry of one client.
RetryNext == GetWithRetry \/ RetryGet \/ RetrySleep
InitRetry ==
    /\ RetryInit /\ TreeFrozen /\ DiscFrozen /\ ScrapeFrozen /\ AcqFrozen
    /\ LoadFrozen /\ ImgFrozen /\ ThrFrozen
SpecRetry == InitRetry /\ [][RetryNext]_vars

\* The comments of one article after the other.
AcquireNext ==
    \/ ScrapeCommentsStart \/ FetchCommentPage \/ FetchAlternate
    \/ HandToTreeBuilder
InitAcquire ==
    /\ AcqIdle /\ TreeFrozen /\ RateFrozen /\ DiscFrozen /\ ScrapeFrozen
    /\ RetryFrozen /\ LoadFrozen /\ ImgFrozen /\ ThrFrozen
SpecAcquire == InitAcquire /\ [][AcquireNext]_vars

\* The calls of _load_ajax_comments; a loop that can make its next pass
\* makes it.
LoadNext == LoadAjaxComments \/ LoadMore
InitLoadMore ==
    /\ LoadInit /\ ImgFrozen /\ ThrFrozen /\ AcqFrozen /\ TreeFrozen /\ RateFrozen /\ DiscFrozen
    /\ ScrapeFrozen /\ RetryFrozen
SpecLoadMore == InitLoadMore /\ [][LoadNext]_vars /\ WF_vars(LoadMore)

ImageNext == DownloadCommentImages \/ DownloadNextImage
InitImages ==
    /\ ImgIdle /\ ThrFrozen /\ LoadFrozen /\ AcqFrozen /\ TreeFrozen /\ RateFrozen
    /\ DiscFrozen /\ ScrapeFrozen /\ RetryFrozen
SpecImages == InitImages /\ [][ImageNext]_vars

\* Threads calling wait and set_delay on one limiter while time passes.
ThreadsNext ==
    ThreadCalls \/ ThreadEnters \/ ThreadWakes \/ SetDelayLocked \/ Tick
InitThreads ==
    /\ ThreadsInit /\ ImgFrozen /\ LoadFrozen /\ AcqFrozen /\ TreeFrozen
    /\ DiscFrozen /\ ScrapeFrozen /\ RetryFrozen
SpecThreads == InitThreads /\ [][ThreadsNext]_vars

\* One client whose delay only the adaptive throttling changes.
ThrottleNext == Get \/ Complete \/ Tick
InitThrottle ==
    /\ ThrottleInit /\ ThrFrozen /\ ImgFrozen /\ LoadFrozen /\ AcqFrozen
    /\ TreeFrozen /\ DiscFrozen /\ ScrapeFrozen /\ RetryFrozen
SpecThrottle == InitThrottle /\ [][ThrottleNext]_vars

====
